---- MODULE Spec2Model ----
(***************************************************************************)
(* State-machine model of the qiniu-ng storage core:                       *)
(*   - Bucket's lazy cells (OnceCell) and the process-wide query caches    *)
(*     behind Bucket::region / regions / domains / rs_urls / is_private    *)
(*     (qiniu-rust/src/storage/bucket.rs);                                 *)
(*   - FormUploader::send, the region loop over the HTTP client's          *)
(*     in-region host rotation                                             *)
(*     (qiniu-rust/src/storage/uploader/form_uploader.rs);                 *)
(*   - BatchUploader: creation from a token or a bucket, its thread pool,  *)
(*     start() and handle_job                                              *)
(*     (qiniu-rust/src/storage/uploader/batch_uploader.rs);                *)
(*   - BucketBuilder: region, region_id, auto_detect_region,               *)
(*     prepend_domain, auto_detect_domains, build and reset                *)
(*     (qiniu-rust/src/storage/bucket.rs);                                 *)
(*   - the resumable policy of a batch job and the pipeline chosen from it *)
(*     (batch_uploader.rs), and the block bookkeeping of a resumable       *)
(*     upload up to mkfile.                                                *)
(***************************************************************************)
EXTENDS Integers, Sequences, FiniteSets, TLC

(* ------------------------------ bounds -------------------------------- *)

\* threads calling into the shared buckets, one call each
NumThreads == 2

Threads == 1..NumThreads

\* regions of an up_urls_list, hosts of a region, http_request_retries
MaxRegions == 2
MaxHosts == 2
MaxRetries == 3

\* jobs pushed to a batch uploader, start() calls, and the largest pool
\* size, thread_pool_size, max_concurrency and CPU count
MaxJobs == 2
MaxStarts == 2
MaxPool == 2

\* region()/region_id() calls and prepend_domain() calls on one builder
MaxGiven == 3
MaxPrepended == 2

\* reset() calls on one builder
MaxResets == 1

\* the largest upload threshold, the largest data size, and the most calls
\* that set the resumable policy of one job builder
MaxThreshold == 2
MaxSize == 3
MaxPolicyCalls == 2

\* the most blocks of a resumable upload, and the largest max_concurrency
MaxBlocks == 3
MaxWorkers == 2

\* the most chunks of a block, and the most restarts of blocks in one
\* resumable upload
MaxChunks == 2
MaxRestarts == 1

\* the most calls on one handle of the C interface
MaxCalls == 5

\* the most bytes of a stream handed to the form uploader
MaxStreamLen == 2

\* the most queries of the domains made in one process
MaxQueries == 2

\* two independently built Bucket instances with the same access key,
\* secret key and bucket name
Buckets == {1, 2}

(* ------------------------------ values -------------------------------- *)

\* Option<T>: None is the empty sequence, Some(x) the one-element sequence
None == <<>>

Some(x) == <<x>>

IsSome(o) == o # <<>>

Unwrap(o) == o[1]

\* the lazy cells of BucketInner
Cells == {"region", "backup_regions", "domains", "rs_urls", "bucket_info"}

\* the three discovery endpoints: /v4/query, /v6/domain/list, /v2/bucketInfo
Endpoints == {"region", "domain", "info"}

\* what the Service may answer to a region query: the list of regions of
\* the bucket, primary first (an answer may list no region at all)
RegionAnswers == {<<"z0", "z1", "z2">>, <<"z1", "z0">>, <<>>}

\* what the Service may answer to a domain query
DomainAnswers == {<<"abc.com", "def.com">>, <<>>}

\* the "private" field of the bucketInfo answer
InfoAnswers == {0, 1}

\* Vec::swap_remove(0): the removed first element ...
SwapRemoveFirst(s) == s[1]

\* ... and what is left of the vector: the last element takes the hole
SwapRemoveRest(s) ==
    IF Len(s) = 1 THEN <<>> ELSE <<s[Len(s)]>> \o SubSeq(s, 2, Len(s) - 1)

\* config.rs_url(): the global RS host
GlobalRsUrl == <<"rs", "config">>

\* region.rs_urls_ref(use_https): the RS hosts of a region
RsUrlsRef(r) == << <<"rs", r>> >>

(* ------------------------------- state -------------------------------- *)

VARIABLES
    \* BucketInner's OnceCells, per bucket: None or Some(value)
    region, backup_regions, domains, rs_urls, bucket_info,
    \* the thread running a cell's initializer, per bucket and cell
    initializing,
    \* the process-wide caches of Region::query and domain::query, and the
    \* thread computing the entry (single flight)
    regionQueryCache, regionQueryInflight,
    domainQueryCache, domainQueryInflight,
    \* per thread: position, operation, bucket, locals, iterator position,
    \* what the last call returned
    pc, op, bkt, local, itered, obs,
    \* history: HTTP calls per endpoint and bucket, failed HTTP calls and
    \* errors returned per endpoint, buckets called so far,
    \* whether the caches were ever purged, the first answer cached since the
    \* last purge, whether the last discovery of a bucket failed, and whether
    \* the last query of an endpoint failed
    httpCalls, httpFailed, errReturned, used, purged, firstAnswer, lastFailed,
    queryFailed,
    \* history: an HTTP query of the endpoint completed while another requester
    \* was waiting for its outcome
    contended,
    \* FormUploader::send
    fu,
    \* BatchUploader and the jobs it runs
    bu,
    \* BucketBuilder
    bb,
    \* a resumable upload
    ru,
    \* a handle of the C interface and the instance behind it
    ch,
    \* an operation on an Object and its HTTP request
    ob,
    \* an UploadManager making a bucket uploader
    um,
    \* the QUERY_CACHE of domain::query, by key
    qc

bucketCells == <<region, backup_regions, domains, rs_urls, bucket_info>>

caches == <<regionQueryCache, regionQueryInflight, domainQueryCache, domainQueryInflight>>

threadVars == <<pc, op, bkt, local, itered, obs>>

history ==
    <<httpCalls, httpFailed, errReturned, used, purged, firstAnswer, lastFailed,
      queryFailed, contended>>

vars == <<bucketCells, initializing, caches, threadVars, history, fu, bu, bb, ru, ch, ob, um, qc>>

NoObs == [op |-> "none", bucket |-> 0, res |-> "none", val |-> <<>>]

\* BucketBuilder::build with nothing configured: every cell unset
InitBuckets ==
    /\ region = [b \in Buckets |-> None]
    /\ backup_regions = [b \in Buckets |-> None]
    /\ domains = [b \in Buckets |-> None]
    /\ rs_urls = [b \in Buckets |-> None]
    /\ bucket_info = [b \in Buckets |-> None]
    /\ initializing = [b \in Buckets |-> [c \in Cells |-> None]]
    /\ regionQueryCache = None
    /\ regionQueryInflight = None
    /\ domainQueryCache = None
    /\ domainQueryInflight = None
    /\ pc = [t \in Threads |-> "idle"]
    /\ op = [t \in Threads |-> "none"]
    /\ bkt = [t \in Threads |-> 1]
    /\ local = [t \in Threads |-> <<>>]
    /\ itered = [t \in Threads |-> 0]
    /\ obs = [t \in Threads |-> NoObs]
    /\ httpCalls = [e \in Endpoints |-> [b \in Buckets |-> 0]]
    /\ httpFailed = [e \in Endpoints |-> 0]
    /\ errReturned = [e \in Endpoints |-> 0]
    /\ used = 0
    /\ purged = FALSE
    /\ firstAnswer = [e \in Endpoints |-> None]
    /\ lastFailed = [b \in Buckets |-> [e \in Endpoints |-> FALSE]]
    /\ queryFailed = [e \in Endpoints |-> FALSE]
    /\ contended = [e \in Endpoints |-> FALSE]

FormIdle == [pc |-> "unused"]

BatchIdle == [pc |-> "unused"]

BuilderIdle == [pc |-> "unused"]

ResumableIdle == [pc |-> "unused"]

QueryCacheIdle == [pc |-> "unused"]

ManagerIdle == [pc |-> "unused"]

ObjectIdle == [pc |-> "unused"]

HandleIdle == [pc |-> "unused"]

Init ==
    /\ InitBuckets
    /\ fu = FormIdle
    /\ bu = BatchIdle
    /\ bb = BuilderIdle
    /\ qc = QueryCacheIdle
    /\ um = ManagerIdle
    /\ ob = ObjectIdle
    /\ ch = HandleIdle
    /\ ru = ResumableIdle

(* ------------------------- calls into a bucket ------------------------- *)

\* thread t has made a call already
Started(t) == pc[t] # "idle"

\* a thread starts operation o on bucket b; threads that have not called
\* yet are interchangeable, and so are buckets nobody has called yet: both
\* are taken in the order of their numbers
Call(t, b, o, entry) ==
    /\ pc[t] = "idle"
    /\ \A u \in Threads : u < t => Started(u)
    /\ b <= used + 1
    /\ used' = IF b > used THEN b ELSE used
    /\ pc' = [pc EXCEPT ![t] = entry]
    /\ op' = [op EXCEPT ![t] = o]
    /\ bkt' = [bkt EXCEPT ![t] = b]
    /\ local' = [local EXCEPT ![t] = <<>>]
    /\ itered' = [itered EXCEPT ![t] = 0]
    /\ UNCHANGED <<obs, bucketCells, initializing, caches, fu, bu, bb, ru, ch, ob, um, qc>>
    /\ UNCHANGED <<httpCalls, httpFailed, errReturned, purged, firstAnswer, lastFailed,
                   queryFailed, contended>>

CallRegion(t, b) == Call(t, b, "region", "region_enter")

CallRegions(t, b) == Call(t, b, "regions", "region_enter")

CallDomains(t, b) == Call(t, b, "domains", "domains_enter")

CallGetDomainAndBackupDomains(t, b) ==
    Call(t, b, "get_domain_and_backup_domains", "domains_enter")

CallIsPrivate(t, b) == Call(t, b, "is_private", "info_enter")

CallRsUrls(t, b) == Call(t, b, "rs_urls", "rs_enter")

\* the call of thread t returns to its caller
Returns(t, res, val) ==
    /\ pc' = [pc EXCEPT ![t] = "returned"]
    /\ obs' = [obs EXCEPT ![t] = [op |-> op[t], bucket |-> bkt[t], res |-> res, val |-> val]]
    /\ local' = [local EXCEPT ![t] = <<>>]
    /\ itered' = [itered EXCEPT ![t] = 0]
    /\ op' = [op EXCEPT ![t] = "none"]
    /\ bkt' = [bkt EXCEPT ![t] = 1]

\* the part of rs_urls() after self.region() as it would be if the global
\* RS host were put first
AfterRegion_GlobalFirst(t, res, r) ==
    CASE op[t] = "region" ->
            Returns(t, res, IF res = "Ok" THEN <<r>> ELSE <<>>)
      [] op[t] = "regions" ->
            IF res = "Ok"
            THEN /\ pc' = [pc EXCEPT ![t] = "iter"]
                 /\ local' = [local EXCEPT ![t] = <<>>]
                 /\ itered' = [itered EXCEPT ![t] = 0]
                 /\ UNCHANGED <<op, bkt, obs>>
            ELSE Returns(t, "Err", <<>>)
      [] op[t] = "rs_urls" ->
            /\ pc' = [pc EXCEPT ![t] = "rs_publish"]
            /\ local' = [local EXCEPT ![t] =
                            IF res = "Ok" THEN <<GlobalRsUrl>> \o RsUrlsRef(r)
                            ELSE <<GlobalRsUrl>>]
            /\ UNCHANGED <<op, bkt, obs, itered>>

\* self.region() has returned inside region(), regions() or rs_urls()
AfterRegion(t, res, r) ==
    CASE op[t] = "region" ->
            Returns(t, res, IF res = "Ok" THEN <<r>> ELSE <<>>)
      [] op[t] = "regions" ->
            IF res = "Ok"
            THEN /\ pc' = [pc EXCEPT ![t] = "iter"]
                 /\ local' = [local EXCEPT ![t] = <<>>]
                 /\ itered' = [itered EXCEPT ![t] = 0]
                 /\ UNCHANGED <<op, bkt, obs>>
            ELSE Returns(t, "Err", <<>>)
      [] op[t] = "rs_urls" ->
            /\ pc' = [pc EXCEPT ![t] = "rs_publish"]
            /\ local' = [local EXCEPT ![t] =
                            IF res = "Ok" THEN RsUrlsRef(r) \o <<GlobalRsUrl>>
                            ELSE <<GlobalRsUrl>>]
            /\ UNCHANGED <<op, bkt, obs, itered>>

(* ------------------------- the query caches --------------------------- *)

\* CacheMap::try_get_or_insert seen from one requester: the entry is there
\* ("hit"), another requester is computing it ("wait"), or this requester
\* computes it ("miss")
CacheMapProbe(cache, inflight) ==
    IF IsSome(cache) THEN "hit"
    ELSE IF IsSome(inflight) THEN "wait"
    ELSE "miss"

\* the requesters waiting for the outcome of thread t's query of endpoint
\* e: at the cache entry, or at the cell of t's bucket
Waiters(t, e) ==
    CASE e = "region" ->
            {u \in Threads \ {t} :
                \/ pc[u] = "region_query"
                \/ pc[u] = "region_enter" /\ bkt[u] = bkt[t]}
      [] e = "domain" ->
            {u \in Threads \ {t} :
                \/ pc[u] = "domain_query"
                \/ pc[u] = "domains_enter" /\ bkt[u] = bkt[t]}
      [] e = "info" ->
            {u \in Threads \ {t} : pc[u] = "info_enter" /\ bkt[u] = bkt[t]}

\* the bookkeeping of one HTTP call of thread t to endpoint e
HttpCounted(t, e, failed) ==
    /\ httpCalls' = [httpCalls EXCEPT ![e][bkt[t]] = @ + 1]
    /\ httpFailed' = [httpFailed EXCEPT ![e] = IF failed THEN @ + 1 ELSE @]
    /\ queryFailed' = [queryFailed EXCEPT ![e] = failed]
    /\ contended' = [contended EXCEPT ![e] = @ \/ Waiters(t, e) # {}]

\* the first answer the Service gave since the caches were last purged
FirstAnswerNoted(e, ans) ==
    firstAnswer' = [firstAnswer EXCEPT ![e] = IF IsSome(@) THEN @ ELSE Some(ans)]

(* --------------------------- Bucket::region --------------------------- *)

\* region() as it would be if it ran its closure whenever no other thread
\* is initializing, without looking at the cell first
RegionGetOrTryInit_IgnoresCell(t) ==
    /\ pc[t] = "region_enter"
    /\ initializing[bkt[t]]["region"] = None
    /\ initializing' = [initializing EXCEPT ![bkt[t]]["region"] = Some(t)]
    /\ pc' = [pc EXCEPT ![t] = "region_query"]
    /\ UNCHANGED <<op, bkt, local, itered, obs, bucketCells, caches, history, fu, bu, bb, ru, ch, ob, um, qc>>

\* region() as it would be if a waiter were handed the initializer's error
\* instead of running the closure itself
RegionGetOrTryInit_SharesError(t) ==
    /\ pc[t] = "region_enter"
    /\ IF IsSome(region[bkt[t]])
       THEN /\ AfterRegion(t, "Ok", Unwrap(region[bkt[t]]))
            /\ UNCHANGED <<initializing, errReturned>>
       ELSE IF initializing[bkt[t]]["region"] = None
       THEN /\ initializing' = [initializing EXCEPT ![bkt[t]]["region"] = Some(t)]
            /\ pc' = [pc EXCEPT ![t] = "region_query"]
            /\ UNCHANGED <<op, bkt, local, itered, obs, errReturned>>
       ELSE /\ pc[Unwrap(initializing[bkt[t]]["region"])] = "region_fail"
            /\ errReturned' = [errReturned EXCEPT !["region"] = @ + 1]
            /\ AfterRegion(t, "Err", "none")
            /\ UNCHANGED initializing
    /\ UNCHANGED <<bucketCells, caches, httpCalls, httpFailed, used, purged,
                   firstAnswer, lastFailed, queryFailed, contended, fu, bu, bb, ru, ch, ob, um, qc>>

\* region.get_or_try_init: the cell is set (return it), another thread is
\* initializing it (block), or this thread runs the closure
RegionGetOrTryInit(t) ==
    /\ pc[t] = "region_enter"
    /\ IF IsSome(region[bkt[t]])
       THEN /\ AfterRegion(t, "Ok", Unwrap(region[bkt[t]]))
            /\ UNCHANGED initializing
       ELSE /\ initializing[bkt[t]]["region"] = None
            /\ initializing' = [initializing EXCEPT ![bkt[t]]["region"] = Some(t)]
            /\ pc' = [pc EXCEPT ![t] = "region_query"]
            /\ UNCHANGED <<op, bkt, local, itered, obs>>
    /\ UNCHANGED <<bucketCells, caches, history, fu, bu, bb, ru, ch, ob, um, qc>>

\* Region::query: the cache is consulted first
RegionQuery(t) ==
    /\ pc[t] = "region_query"
    /\ LET probe == CacheMapProbe(regionQueryCache, regionQueryInflight) IN
        /\ probe # "wait"
        /\ IF probe = "hit"
           THEN /\ local' = [local EXCEPT ![t] = Unwrap(regionQueryCache)]
                /\ pc' = [pc EXCEPT ![t] = "region_init"]
                /\ UNCHANGED regionQueryInflight
           ELSE /\ regionQueryInflight' = Some(t)
                /\ pc' = [pc EXCEPT ![t] = "region_http"]
                /\ UNCHANGED local
    /\ UNCHANGED <<bucketCells, initializing, regionQueryCache, domainQueryCache,
                   domainQueryInflight, op, bkt, itered, obs, history, fu, bu, bb, ru, ch, ob, um, qc>>

\* GET /v4/query answered with a region list: the entry is stored
RegionQueryHttpOk(t, ans) ==
    /\ pc[t] = "region_http"
    /\ regionQueryCache' = Some(ans)
    /\ regionQueryInflight' = None
    /\ local' = [local EXCEPT ![t] = ans]
    /\ pc' = [pc EXCEPT ![t] = "region_init"]
    /\ HttpCounted(t, "region", FALSE)
    /\ FirstAnswerNoted("region", ans)
    /\ UNCHANGED <<bucketCells, initializing, domainQueryCache, domainQueryInflight,
                   op, bkt, itered, obs, errReturned, used, purged, lastFailed, fu, bu, bb, ru, ch, ob, um, qc>>

\* GET /v4/query failed: the entry is removed, nothing is stored
RegionQueryHttpErr(t) ==
    /\ pc[t] = "region_http"
    /\ regionQueryCache' = None
    /\ regionQueryInflight' = None
    /\ pc' = [pc EXCEPT ![t] = "region_fail"]
    /\ HttpCounted(t, "region", TRUE)
    /\ UNCHANGED <<bucketCells, initializing, domainQueryCache, domainQueryInflight,
                   op, bkt, local, itered, obs, errReturned, used, purged, firstAnswer,
                   lastFailed, fu, bu, bb, ru, ch, ob, um, qc>>

\* the `?` of the closure: get_or_try_init leaves the cell unset and hands
\* the error to this caller alone
RegionInitFailed(t) ==
    /\ pc[t] = "region_fail"
    /\ initializing' = [initializing EXCEPT ![bkt[t]]["region"] = None]
    /\ errReturned' = [errReturned EXCEPT !["region"] = @ + 1]
    /\ lastFailed' = [lastFailed EXCEPT ![bkt[t]]["region"] = TRUE]
    /\ AfterRegion(t, "Err", "none")
    /\ UNCHANGED <<bucketCells, caches, httpCalls, httpFailed, used, purged, firstAnswer,
                   queryFailed, contended, fu, bu, bb, ru, ch, ob, um, qc>>

\* a panic unwinds through every get_or_(try_)init the thread is inside:
\* the cells stay unset and their waiters are released
Unwound(t) ==
    [initializing EXCEPT ![bkt[t]] =
        [c \in Cells |-> IF initializing[bkt[t]][c] = Some(t) THEN None ELSE @[c]]]

\* the closure of region() as it would be if it did not publish the
\* backups before it returns the primary
RegionInit_BackupsUnpublished(t) ==
    /\ pc[t] = "region_init"
    /\ IF local[t] = <<>>
       THEN /\ initializing' = Unwound(t)
            /\ pc' = [pc EXCEPT ![t] = "panicked"]
            /\ obs' = [obs EXCEPT ![t] =
                          [op |-> op[t], bucket |-> bkt[t], res |-> "Panic", val |-> <<>>]]
            /\ local' = [local EXCEPT ![t] = <<>>]
       ELSE /\ local' = [local EXCEPT ![t] = <<SwapRemoveFirst(local[t])>>]
            /\ pc' = [pc EXCEPT ![t] = "region_publish"]
            /\ UNCHANGED <<initializing, obs>>
    /\ UNCHANGED <<region, backup_regions, domains, rs_urls, bucket_info, caches, op, bkt,
                   itered, history, fu, bu, bb, ru, ch, ob, um, qc>>

\* the closure of region(): swap_remove(0), then the backups are published
RegionInit(t) ==
    /\ pc[t] = "region_init"
    /\ IF local[t] = <<>>
       THEN \* swap_remove(0) on an empty vector panics
            /\ initializing' = Unwound(t)
            /\ pc' = [pc EXCEPT ![t] = "panicked"]
            /\ obs' = [obs EXCEPT ![t] =
                          [op |-> op[t], bucket |-> bkt[t], res |-> "Panic", val |-> <<>>]]
            /\ local' = [local EXCEPT ![t] = <<>>]
            /\ UNCHANGED backup_regions
       ELSE /\ backup_regions' =
                    [backup_regions EXCEPT ![bkt[t]] =
                        IF IsSome(@) THEN @ ELSE Some(SwapRemoveRest(local[t]))]
            /\ local' = [local EXCEPT ![t] = <<SwapRemoveFirst(local[t])>>]
            /\ pc' = [pc EXCEPT ![t] = "region_publish"]
            /\ UNCHANGED <<initializing, obs>>
    /\ UNCHANGED <<region, domains, rs_urls, bucket_info, caches, op, bkt, itered,
                   history, fu, bu, bb, ru, ch, ob, um, qc>>

\* get_or_try_init stores Ok(first_region) and returns the cell's value
RegionPublish(t) ==
    /\ pc[t] = "region_publish"
    /\ region' = [region EXCEPT ![bkt[t]] = Some(local[t][1])]
    /\ initializing' = [initializing EXCEPT ![bkt[t]]["region"] = None]
    /\ lastFailed' = [lastFailed EXCEPT ![bkt[t]]["region"] = FALSE]
    /\ AfterRegion(t, "Ok", local[t][1])
    /\ UNCHANGED <<backup_regions, domains, rs_urls, bucket_info, caches, httpCalls,
                   httpFailed, errReturned, used, purged, firstAnswer, queryFailed,
                   contended, fu, bu, bb, ru, ch, ob, um, qc>>

(* --------------------------- Bucket::regions -------------------------- *)

\* BucketRegionIter::next with `itered` items yielded so far: the primary
\* first, then the backups by index; None ends the iteration
IterNext(b, n) ==
    IF n = 0
    THEN region[b]
    ELSE IF IsSome(backup_regions[b]) /\ n - 1 < Len(Unwrap(backup_regions[b]))
         THEN Some(Unwrap(backup_regions[b])[n])
         ELSE None

\* the items a consumer collects from the iterator, from position n on
RECURSIVE IterCollect(_, _)
IterCollect(b, n) ==
    IF IsSome(IterNext(b, n)) THEN <<Unwrap(IterNext(b, n))>> \o IterCollect(b, n + 1)
    ELSE <<>>

\* regions() after self.region()? succeeded: the caller runs the iterator
\* to its end
BucketRegionIterCollect(t) ==
    /\ pc[t] = "iter"
    /\ Returns(t, "Ok", IterCollect(bkt[t], 0))
    /\ UNCHANGED <<bucketCells, initializing, caches, history, fu, bu, bb, ru, ch, ob, um, qc>>

(* --------------------------- Bucket::domains -------------------------- *)

\* get_domain_and_backup_domains as it would be if it took the primary
\* from the front after the pop
GetDomainAndBackupDomains_DropsLast(res, val) ==
    IF res = "Err" THEN [res |-> "GetDomainsError", val |-> <<>>]
    ELSE IF Len(val) < 2 THEN [res |-> "NoDomainsBound", val |-> <<>>]
    ELSE [res |-> "Ok", val |-> <<val[1], SubSeq(val, 2, Len(val) - 1)>>]

\* get_domain_and_backup_domains, given what self.domains() returned: `?`
\* turns its error into GetDomainsError; Vec::pop takes the LAST domain as
\* the first one, and the others are reversed; an empty list is
\* NoDomainsBound
GetDomainAndBackupDomains(res, val) ==
    IF res = "Err" THEN [res |-> "GetDomainsError", val |-> <<>>]
    ELSE IF val = <<>> THEN [res |-> "NoDomainsBound", val |-> <<>>]
    ELSE [res |-> "Ok",
          val |-> <<val[Len(val)],
                    [i \in 1..(Len(val) - 1) |-> val[Len(val) - i]]>>]

\* self.domains() has returned, to the caller or inside
\* get_domain_and_backup_domains (whose observation keeps what domains()
\* returned, in `of`)
AfterDomains(t, res, val) ==
    IF op[t] = "get_domain_and_backup_domains"
    THEN /\ pc' = [pc EXCEPT ![t] = "returned"]
         /\ obs' = [obs EXCEPT ![t] =
                      [op |-> op[t], bucket |-> bkt[t],
                       res |-> GetDomainAndBackupDomains(res, val).res,
                       val |-> GetDomainAndBackupDomains(res, val).val,
                       of |-> [res |-> res, val |-> val]]]
         /\ local' = [local EXCEPT ![t] = <<>>]
         /\ itered' = [itered EXCEPT ![t] = 0]
         /\ op' = [op EXCEPT ![t] = "none"]
         /\ bkt' = [bkt EXCEPT ![t] = 1]
    ELSE Returns(t, res, val)

\* domains() as it would be if it ran its closure without looking at the
\* cell first
DomainsGetOrTryInit_IgnoresCell(t) ==
    /\ pc[t] = "domains_enter"
    /\ initializing[bkt[t]]["domains"] = None
    /\ initializing' = [initializing EXCEPT ![bkt[t]]["domains"] = Some(t)]
    /\ pc' = [pc EXCEPT ![t] = "domain_query"]
    /\ UNCHANGED <<op, bkt, local, itered, obs, bucketCells, caches, history, fu, bu, bb, ru, ch, ob, um, qc>>

\* domains.get_or_try_init
DomainsGetOrTryInit(t) ==
    /\ pc[t] = "domains_enter"
    /\ IF IsSome(domains[bkt[t]])
       THEN /\ AfterDomains(t, "Ok", Unwrap(domains[bkt[t]]))
            /\ UNCHANGED initializing
       ELSE /\ initializing[bkt[t]]["domains"] = None
            /\ initializing' = [initializing EXCEPT ![bkt[t]]["domains"] = Some(t)]
            /\ pc' = [pc EXCEPT ![t] = "domain_query"]
            /\ UNCHANGED <<op, bkt, local, itered, obs>>
    /\ UNCHANGED <<bucketCells, caches, history, fu, bu, bb, ru, ch, ob, um, qc>>

\* domain::query as it would be if it sent the request without going
\* through QUERY_CACHE
DomainQuery_NoCache(t) ==
    /\ pc[t] = "domain_query"
    /\ domainQueryInflight' = Some(t)
    /\ pc' = [pc EXCEPT ![t] = "domain_http"]
    /\ UNCHANGED <<bucketCells, initializing, regionQueryCache, regionQueryInflight,
                   domainQueryCache, op, bkt, local, itered, obs, history, fu, bu, bb, ru, ch, ob, um, qc>>

\* domain::query: QUERY_CACHE.try_get_or_insert(QueryCacheKey::new(..), ..)
DomainQuery(t) ==
    /\ pc[t] = "domain_query"
    /\ LET probe == CacheMapProbe(domainQueryCache, domainQueryInflight) IN
        /\ probe # "wait"
        /\ IF probe = "hit"
           THEN /\ local' = [local EXCEPT ![t] = Unwrap(domainQueryCache)]
                /\ pc' = [pc EXCEPT ![t] = "domains_publish"]
                /\ UNCHANGED domainQueryInflight
           ELSE /\ domainQueryInflight' = Some(t)
                /\ pc' = [pc EXCEPT ![t] = "domain_http"]
                /\ UNCHANGED local
    /\ UNCHANGED <<bucketCells, initializing, regionQueryCache, regionQueryInflight,
                   domainQueryCache, op, bkt, itered, obs, history, fu, bu, bb, ru, ch, ob, um, qc>>

\* the closure of domain::query as it would be if its entry had no lifetime:
\* the results are returned and nothing is kept
DomainQueryHttpOk_NotStored(t, ans) ==
    /\ pc[t] = "domain_http"
    /\ domainQueryCache' = None
    /\ domainQueryInflight' = None
    /\ local' = [local EXCEPT ![t] = ans]
    /\ pc' = [pc EXCEPT ![t] = "domains_publish"]
    /\ HttpCounted(t, "domain", FALSE)
    /\ FirstAnswerNoted("domain", ans)
    /\ UNCHANGED <<bucketCells, initializing, regionQueryCache, regionQueryInflight,
                   op, bkt, itered, obs, errReturned, used, purged, lastFailed, fu, bu, bb, ru, ch, ob, um, qc>>

\* GET /v6/domain/list answered: Ok(Some((results, now + 24h))) is stored
DomainQueryHttpOk(t, ans) ==
    /\ pc[t] = "domain_http"
    /\ domainQueryCache' = Some(ans)
    /\ domainQueryInflight' = None
    /\ local' = [local EXCEPT ![t] = ans]
    /\ pc' = [pc EXCEPT ![t] = "domains_publish"]
    /\ HttpCounted(t, "domain", FALSE)
    /\ FirstAnswerNoted("domain", ans)
    /\ UNCHANGED <<bucketCells, initializing, regionQueryCache, regionQueryInflight,
                   op, bkt, itered, obs, errReturned, used, purged, lastFailed, fu, bu, bb, ru, ch, ob, um, qc>>

\* send()? or parse_json()? failed inside the cache's closure
DomainQueryHttpErr(t) ==
    /\ pc[t] = "domain_http"
    /\ domainQueryCache' = None
    /\ domainQueryInflight' = None
    /\ pc' = [pc EXCEPT ![t] = "domains_fail"]
    /\ HttpCounted(t, "domain", TRUE)
    /\ UNCHANGED <<bucketCells, initializing, regionQueryCache, regionQueryInflight,
                   op, bkt, local, itered, obs, errReturned, used, purged, firstAnswer,
                   lastFailed, fu, bu, bb, ru, ch, ob, um, qc>>

\* domains() as it would be with get_or_init and unwrap_or_default: the
\* failure is stored as an empty list
DomainsInitFailed_StoresDefault(t) ==
    /\ pc[t] = "domains_fail"
    /\ domains' = [domains EXCEPT ![bkt[t]] = Some(<<>>)]
    /\ initializing' = [initializing EXCEPT ![bkt[t]]["domains"] = None]
    /\ errReturned' = [errReturned EXCEPT !["domain"] = @ + 1]
    /\ lastFailed' = [lastFailed EXCEPT ![bkt[t]]["domain"] = TRUE]
    /\ AfterDomains(t, "Err", <<>>)
    /\ UNCHANGED <<region, backup_regions, rs_urls, bucket_info, caches, httpCalls,
                   httpFailed, used, purged, firstAnswer, queryFailed, contended, fu, bu, bb, ru, ch, ob, um, qc>>

\* the `?` of domains(): the cell stays unset, the caller gets the error
DomainsInitFailed(t) ==
    /\ pc[t] = "domains_fail"
    /\ initializing' = [initializing EXCEPT ![bkt[t]]["domains"] = None]
    /\ errReturned' = [errReturned EXCEPT !["domain"] = @ + 1]
    /\ lastFailed' = [lastFailed EXCEPT ![bkt[t]]["domain"] = TRUE]
    /\ AfterDomains(t, "Err", <<>>)
    /\ UNCHANGED <<bucketCells, caches, httpCalls, httpFailed, used, purged, firstAnswer,
                   queryFailed, contended, fu, bu, bb, ru, ch, ob, um, qc>>

\* get_or_try_init stores the domain list; domains() returns the cell's value
DomainsPublish(t) ==
    /\ pc[t] = "domains_publish"
    /\ domains' = [domains EXCEPT ![bkt[t]] = Some(local[t])]
    /\ initializing' = [initializing EXCEPT ![bkt[t]]["domains"] = None]
    /\ lastFailed' = [lastFailed EXCEPT ![bkt[t]]["domain"] = FALSE]
    /\ AfterDomains(t, "Ok", local[t])
    /\ UNCHANGED <<region, backup_regions, rs_urls, bucket_info, caches, httpCalls,
                   httpFailed, errReturned, used, purged, firstAnswer, queryFailed,
                   contended, fu, bu, bb, ru, ch, ob, um, qc>>

(* ------------------ Bucket::is_private / get_bucket_info --------------- *)

\* bucket_info.get_or_try_init
BucketInfoGetOrTryInit(t) ==
    /\ pc[t] = "info_enter"
    /\ IF IsSome(bucket_info[bkt[t]])
       THEN /\ Returns(t, "Ok", <<Unwrap(bucket_info[bkt[t]]) # 0>>)
            /\ UNCHANGED initializing
       ELSE /\ initializing[bkt[t]]["bucket_info"] = None
            /\ initializing' = [initializing EXCEPT ![bkt[t]]["bucket_info"] = Some(t)]
            /\ pc' = [pc EXCEPT ![t] = "info_http"]
            /\ UNCHANGED <<op, bkt, local, itered, obs>>
    /\ UNCHANGED <<bucketCells, caches, history, fu, bu, bb, ru, ch, ob, um, qc>>

\* GET /v2/bucketInfo answered {"private": p}: get_or_try_init stores the
\* info and is_private maps it to private != 0
BucketInfoHttpOk(t, p) ==
    /\ pc[t] = "info_http"
    /\ bucket_info' = [bucket_info EXCEPT ![bkt[t]] = Some(p)]
    /\ initializing' = [initializing EXCEPT ![bkt[t]]["bucket_info"] = None]
    /\ lastFailed' = [lastFailed EXCEPT ![bkt[t]]["info"] = FALSE]
    /\ HttpCounted(t, "info", FALSE)
    /\ Returns(t, "Ok", <<p # 0>>)
    /\ UNCHANGED <<region, backup_regions, domains, rs_urls, caches, errReturned,
                   used, purged, firstAnswer, fu, bu, bb, ru, ch, ob, um, qc>>

\* send()? or parse_json()? failed: the `?` of get_bucket_info leaves the
\* cell unset and the caller gets the error
BucketInfoHttpErr(t) ==
    /\ pc[t] = "info_http"
    /\ initializing' = [initializing EXCEPT ![bkt[t]]["bucket_info"] = None]
    /\ errReturned' = [errReturned EXCEPT !["info"] = @ + 1]
    /\ lastFailed' = [lastFailed EXCEPT ![bkt[t]]["info"] = TRUE]
    /\ HttpCounted(t, "info", TRUE)
    /\ Returns(t, "Err", <<>>)
    /\ UNCHANGED <<bucketCells, caches, used, purged, firstAnswer, fu, bu, bb, ru, ch, ob, um, qc>>

(* --------------------------- Bucket::rs_urls -------------------------- *)

\* rs_urls.get_or_init: its closure calls self.region()
RsUrlsGetOrInit(t) ==
    /\ pc[t] = "rs_enter"
    /\ IF IsSome(rs_urls[bkt[t]])
       THEN /\ Returns(t, "Ok", Unwrap(rs_urls[bkt[t]]))
            /\ UNCHANGED initializing
       ELSE /\ initializing[bkt[t]]["rs_urls"] = None
            /\ initializing' = [initializing EXCEPT ![bkt[t]]["rs_urls"] = Some(t)]
            /\ pc' = [pc EXCEPT ![t] = "region_enter"]
            /\ UNCHANGED <<op, bkt, local, itered, obs>>
    /\ UNCHANGED <<bucketCells, caches, history, fu, bu, bb, ru, ch, ob, um, qc>>

\* the closure pushed config.rs_url(); get_or_init stores the list
RsUrlsPublish(t) ==
    /\ pc[t] = "rs_publish"
    /\ rs_urls' = [rs_urls EXCEPT ![bkt[t]] = Some(local[t])]
    /\ initializing' = [initializing EXCEPT ![bkt[t]]["rs_urls"] = None]
    /\ Returns(t, "Ok", local[t])
    /\ UNCHANGED <<region, backup_regions, domains, bucket_info, caches, history, fu, bu, bb, ru, ch, ob, um, qc>>

(* ------------------------- purging the caches -------------------------- *)

\* clear_query_cache(), or the 24h lifetime of the entries running out,
\* while no lookup is computing an entry (an empty cache is left alone)
ClearQueryCache ==
    /\ regionQueryInflight = None
    /\ domainQueryInflight = None
    /\ IsSome(regionQueryCache) \/ IsSome(domainQueryCache)
    /\ regionQueryCache' = None
    /\ domainQueryCache' = None
    /\ purged' = TRUE
    /\ firstAnswer' = [e \in Endpoints |-> None]
    /\ UNCHANGED <<bucketCells, initializing, regionQueryInflight, domainQueryInflight,
                   threadVars, httpCalls, httpFailed, errReturned, used,
                   lastFailed, queryFailed, contended, fu, bu, bb, ru, ch, ob, um, qc>>

(* ------------------------ bucket specification ------------------------- *)

NextBucket ==
    \/ \E t \in Threads, b \in Buckets :
        \/ CallRegion(t, b)
        \/ CallRegions(t, b)
        \/ CallDomains(t, b)
        \/ CallIsPrivate(t, b)
        \/ CallRsUrls(t, b)
    \/ \E t \in Threads :
        \/ RegionGetOrTryInit(t)
        \/ RegionQuery(t)
        \/ \E ans \in RegionAnswers : RegionQueryHttpOk(t, ans)
        \/ RegionQueryHttpErr(t)
        \/ RegionInitFailed(t)
        \/ RegionInit(t)
        \/ RegionPublish(t)
        \/ BucketRegionIterCollect(t)
        \/ DomainsGetOrTryInit(t)
        \/ DomainQuery(t)
        \/ \E ans \in DomainAnswers : DomainQueryHttpOk(t, ans)
        \/ DomainQueryHttpErr(t)
        \/ DomainsInitFailed(t)
        \/ DomainsPublish(t)
        \/ BucketInfoGetOrTryInit(t)
        \/ \E p \in InfoAnswers : BucketInfoHttpOk(t, p)
        \/ BucketInfoHttpErr(t)
        \/ RsUrlsGetOrInit(t)
        \/ RsUrlsPublish(t)
    \/ ClearQueryCache

SpecBucket == Init /\ [][NextBucket]_vars

(* ------------------------- FormUploader::send -------------------------- *)

\* what the Service (or the mock standing for it) answers to one POST
Responses == {"200", "500", "503", "400 incorrect region", "403"}

\* the request failing on the way, before the body is sent whole: after
\* no packet, or after the first one
Timeouts == {"timeout at 0", "timeout at 1"}

\* the packets the body is sent in
BodyPackets == 2

\* the packets sent, each one reported to on_uploading_progress, before
\* the request is answered or fails
SentBefore(resp) ==
    CASE resp = "timeout at 0" -> 0
      [] resp = "timeout at 1" -> 1
      [] OTHER -> BodyPackets

\* the retry classification of the HTTP client
RetryKindOf(resp) ==
    CASE resp = "500" -> "RetryableError"
      [] resp \in Timeouts -> "RetryableError"
      [] resp = "503" -> "HostUnretryableError"
      [] resp = "400 incorrect region" -> "ZoneUnretryableError"
      [] resp = "403" -> "Unretryable"

\* an up_urls_list: per region, the number of its hosts
UpUrlsLists == UNION {[1..n -> 1..MaxHosts] : n \in 0..MaxRegions}

\* the FormUploader that seekable_stream() or stream() returns: the body is
\* in memory, nothing is sent yet
FormUploaderBuilt(list, retries, seekable) ==
    [pc |-> "send",
     up_urls_list |-> list, http_request_retries |-> retries, seekable |-> seekable,
     \* send(): position of the loop, prev_err, what send_form_request
     \* returned, what send returned
     up_urls |-> 0, prev_err |-> None, ret |-> None, result |-> None,
     \* the HTTP client: host of the current request, retries made on it
     host |-> 0, retried |-> 0,
     \* history: HTTP calls, responses seen, regions requested in order,
     \* what the request to each region returned
     attempts |-> 0, seen |-> {}, tried |-> <<>>, outcomes |-> <<>>,
     \* the hooks: whether a progress callback was given, and the upload
     \* logger ("none", "working", or "failing": log() returns an error)
     on_uploading_progress |-> FALSE, upload_logger |-> "none",
     \* history of the hooks: the last `uploaded` the progress callback
     \* was given, whether no value so far was less than the one before,
     \* the records logged by on_response and by on_error, the log() calls
     \* that failed
     last_progress |-> 0, monotone |-> TRUE,
     logged |-> [response |-> 0, error |-> 0], log_failures |-> 0]

\* a FormUploader with on_uploading_progress and an upload logger
FormUploaderHooked(list, retries, progress, logger) ==
    [FormUploaderBuilt(list, retries, TRUE) EXCEPT !.on_uploading_progress = progress,
                                                   !.upload_logger = logger]

\* the up_urls_lists the hooks are watched on
HookLists == {<<2>>, <<1, 1>>}

InitHooks ==
    /\ InitBuckets
    /\ fu \in {FormUploaderHooked(l, n, p, g) :
                l \in HookLists, n \in 0..1, p \in BOOLEAN,
                g \in {"none", "working", "failing"}}
    /\ bu = BatchIdle
    /\ bb = BuilderIdle
    /\ qc = QueryCacheIdle
    /\ um = ManagerIdle
    /\ ob = ObjectIdle
    /\ ch = HandleIdle
    /\ ru = ResumableIdle

InitForm ==
    /\ InitBuckets
    /\ fu \in {FormUploaderBuilt(l, n, s) :
                l \in UpUrlsLists, n \in 0..MaxRetries, s \in BOOLEAN}
    /\ bu = BatchIdle
    /\ bb = BuilderIdle
    /\ qc = QueryCacheIdle
    /\ um = ManagerIdle
    /\ ob = ObjectIdle
    /\ ch = HandleIdle
    /\ ru = ResumableIdle

bucketVars == <<bucketCells, initializing, caches, threadVars, history>>

\* send() as it would be if it went on to the next region after a success
SendReturnOk_Continues ==
    /\ fu.pc = "match"
    /\ fu.ret.res = "Ok"
    /\ fu' = [fu EXCEPT !.pc = "send"]
    /\ UNCHANGED <<bucketVars, bu, bb, ru, ch, ob, um, qc>>

\* send() as it would be if prev_err kept the first error
SendKeepErr_KeepsFirst ==
    /\ fu.pc = "match"
    /\ fu.ret.res = "Err"
    /\ fu.ret.err.kind \in {"RetryableError", "HostUnretryableError", "ZoneUnretryableError"}
    /\ fu' = [fu EXCEPT !.prev_err = IF IsSome(@) THEN @ ELSE Some(fu.ret.err),
                        !.pc = "send"]
    /\ UNCHANGED <<bucketVars, bu, bb, ru, ch, ob, um, qc>>

\* the match of send() as it would be if every error led to the next region
TriesNextRegion_Always(kind) == TRUE

\* the match of send() as it would be if only ZoneUnretryableError led to
\* the next region
TriesNextRegion_ZoneOnly(kind) == kind = "ZoneUnretryableError"

\* the match of send() as it would be if HostUnretryableError were not among
\* the kinds that lead to the next region
TriesNextRegion_NotHost(kind) == kind \in {"RetryableError", "ZoneUnretryableError"}

\* the match of send() as it would be if ZoneUnretryableError were not among
\* the kinds that lead to the next region
TriesNextRegion_NotZone(kind) == kind \in {"RetryableError", "HostUnretryableError"}

\* the retry kinds after which send() goes on to the next region
TriesNextRegion(kind) ==
    kind \in {"RetryableError", "HostUnretryableError", "ZoneUnretryableError"}

\* the for loop of send() takes the next region and calls send_form_request
\* with its hosts
SendFormRequest ==
    /\ fu.pc = "send"
    /\ fu.up_urls < Len(fu.up_urls_list)
    /\ fu' = [fu EXCEPT !.up_urls = @ + 1, !.host = 1, !.retried = 0,
                        !.tried = Append(@, fu.up_urls + 1), !.pc = "http"]
    /\ UNCHANGED <<bucketVars, bu, bb, ru, ch, ob, um, qc>>

\* the closures send_form_request hands to the request, applied to f for
\* one attempt answered by resp: on_uploading_progress forwards every
\* `uploaded` to the callback; on_response logs a record when the response
\* is a success and on_error logs one for a failed attempt, both dropping
\* what log() returns
Hooked(f, resp) ==
    LET sent == SentBefore(resp)
        told == f.on_uploading_progress /\ sent > 0
        logs == f.upload_logger # "none"
    IN [f EXCEPT !.monotone = IF told THEN @ /\ f.last_progress <= 1 ELSE @,
                 !.last_progress = IF told THEN sent ELSE @,
                 !.logged.response = IF logs /\ resp = "200" THEN @ + 1 ELSE @,
                 !.logged.error = IF logs /\ resp # "200" THEN @ + 1 ELSE @,
                 !.log_failures = IF f.upload_logger = "failing" THEN @ + 1 ELSE @]

\* one POST as it would be if on_response handed a failure of log() on as
\* the result of the attempt
HttpCall_LogFailureFails(resp) ==
    /\ fu.pc = "http"
    /\ LET hosts == fu.up_urls_list[fu.up_urls]
           counted == [Hooked(fu, resp) EXCEPT !.attempts = @ + 1, !.seen = @ \cup {resp}]
           returned(r) == [counted EXCEPT !.ret = r, !.outcomes = Append(@, r),
                                          !.host = 0, !.retried = 0, !.pc = "match"]
           err == [res |-> "Err",
                   err |-> [kind |-> IF resp = "200" THEN "Unretryable" ELSE RetryKindOf(resp),
                            region |-> fu.up_urls,
                            host |-> fu.host, resp |-> resp]]
           nextHost == IF fu.host < hosts
                       THEN [counted EXCEPT !.host = @ + 1, !.retried = 0]
                       ELSE returned(err)
       IN fu' = CASE resp = "200" ->
                        IF fu.upload_logger = "failing" THEN returned(err)
                        ELSE returned([res |-> "Ok", region |-> fu.up_urls])
                  [] RetryKindOf(resp) = "RetryableError" ->
                        IF fu.retried < fu.http_request_retries
                        THEN [counted EXCEPT !.retried = @ + 1]
                        ELSE nextHost
                  [] RetryKindOf(resp) = "HostUnretryableError" -> nextHost
                  [] OTHER -> returned(err)
    /\ UNCHANGED <<bucketVars, bu, bb, ru, ch, ob, um, qc>>

\* one POST of the HTTP client and its answer: 2xx returns the response; a
\* RetryableError is retried on the same host http_request_retries times,
\* then on the next host; a HostUnretryableError moves to the next host at
\* once; after the last host, and after any other error, the error is
\* returned. The hooks are called in every attempt
HttpCall(resp) ==
    /\ fu.pc = "http"
    /\ LET hosts == fu.up_urls_list[fu.up_urls]
           counted == [Hooked(fu, resp) EXCEPT !.attempts = @ + 1, !.seen = @ \cup {resp}]
           returned(r) == [counted EXCEPT !.ret = r, !.outcomes = Append(@, r),
                                          !.host = 0, !.retried = 0, !.pc = "match"]
           err == [res |-> "Err",
                   err |-> [kind |-> RetryKindOf(resp), region |-> fu.up_urls,
                            host |-> fu.host, resp |-> resp]]
           nextHost == IF fu.host < hosts
                       THEN [counted EXCEPT !.host = @ + 1, !.retried = 0]
                       ELSE returned(err)
       IN fu' = CASE resp = "200" -> returned([res |-> "Ok", region |-> fu.up_urls])
                  [] RetryKindOf(resp) = "RetryableError" ->
                        IF fu.retried < fu.http_request_retries
                        THEN [counted EXCEPT !.retried = @ + 1]
                        ELSE nextHost
                  [] RetryKindOf(resp) = "HostUnretryableError" -> nextHost
                  [] OTHER -> returned(err)
    /\ UNCHANGED <<bucketVars, bu, bb, ru, ch, ob, um, qc>>

\* Ok(value) => return Ok(value)
SendReturnOk ==
    /\ fu.pc = "match"
    /\ fu.ret.res = "Ok"
    /\ fu' = [fu EXCEPT !.result = Some(fu.ret), !.pc = "done"]
    /\ UNCHANGED <<bucketVars, bu, bb, ru, ch, ob, um, qc>>

\* Err(err) with one of the three retry kinds => prev_err = Some(err)
SendKeepErr ==
    /\ fu.pc = "match"
    /\ fu.ret.res = "Err"
    /\ TriesNextRegion(fu.ret.err.kind)
    /\ fu' = [fu EXCEPT !.prev_err = Some(fu.ret.err), !.pc = "send"]
    /\ UNCHANGED <<bucketVars, bu, bb, ru, ch, ob, um, qc>>

\* Err(err) with any other retry kind => return Err(err)
SendReturnErr ==
    /\ fu.pc = "match"
    /\ fu.ret.res = "Err"
    /\ ~TriesNextRegion(fu.ret.err.kind)
    /\ fu' = [fu EXCEPT !.result = Some(fu.ret), !.pc = "done"]
    /\ UNCHANGED <<bucketVars, bu, bb, ru, ch, ob, um, qc>>

\* after the loop: Err(prev_err.expect(..)), which panics when no region
\* was tried
SendExpectPrevErr ==
    /\ fu.pc = "send"
    /\ fu.up_urls = Len(fu.up_urls_list)
    /\ fu' = [fu EXCEPT !.result = IF IsSome(fu.prev_err)
                                   THEN Some([res |-> "Err", err |-> Unwrap(fu.prev_err)])
                                   ELSE Some([res |-> "Panic"]),
                        !.pc = "done"]
    /\ UNCHANGED <<bucketVars, bu, bb, ru, ch, ob, um, qc>>

NextForm ==
    \/ SendFormRequest
    \/ \E resp \in Responses : HttpCall(resp)
    \/ SendReturnOk
    \/ SendKeepErr
    \/ SendReturnErr
    \/ SendExpectPrevErr

SpecForm == InitForm /\ [][NextForm]_vars

\* send() with a progress callback and an upload logger, over requests
\* that may also fail on the way
NextHooks ==
    \/ SendFormRequest
    \/ \E resp \in Responses \cup Timeouts : HttpCall(resp)
    \/ SendReturnOk
    \/ SendKeepErr
    \/ SendReturnErr
    \/ SendExpectPrevErr

SpecHooks == InitHooks /\ [][NextHooks]_vars

(* ---------------------------- BatchUploader ---------------------------- *)

\* upload tokens: id, and the bucket of the scope of its policy
Token(id, bucket) == [id |-> id, bucket |-> bucket]

\* the tokens callers hand in: one naming a bucket, one naming none
Tokens == {Token("T1", Some("bucket")), Token("T3", None)}

\* the tokens jobs are given: one naming a bucket, one naming none
JobTokens == {Token("T2", Some("bucket")), Token("T3", None)}

\* UploadToken::new_from_bucket(name, credential, config), which
\* Bucket::uploader() generates
GeneratedToken == Token("TB", Some("bucket"))

JobIds == 1..MaxJobs

\* nothing is created yet; the machine has `cpus` CPUs and the upload
\* manager's (or bucket's) thread pool has `manager_pool` workers (0: none)
BatchNew(cpus, manager_pool) ==
    [pc |-> "new", cpus |-> cpus, manager_pool |-> manager_pool,
     created |-> None, core |-> "none", upload_token |-> None,
     max_concurrency |-> 0, thread_pool_size |-> 0,
     jobs |-> <<>>,
     \* start(): the thread pool in use (its workers), the local `jobs`,
     \* the jobs spawned and not begun, the jobs being handled
     pool |-> 0, local_jobs |-> <<>>, spawned |-> {}, handling |-> {},
     \* history: jobs pushed, start() calls returned, per job how often it
     \* was run and in which start(), the token it was uploaded with, its
     \* upload result, whether it has an on_completed and which token of its
     \* own, how often its on_completed was invoked and with what; region
     \* lookups; builder calls refused
     pushed |-> 0, starts |-> 0,
     runs |-> [j \in JobIds |-> 0], run_in |-> [j \in JobIds |-> 0], token_used |-> [j \in JobIds |-> "none"],
     results |-> [j \in JobIds |-> "none"],
     with_callback |-> [j \in JobIds |-> FALSE],
     job_token |-> [j \in JobIds |-> None],
     callbacks |-> [j \in JobIds |-> 0], callback_arg |-> [j \in JobIds |-> "none"],
     region_queries |-> 0, refused |-> FALSE]

\* a machine with MaxPool CPUs whose upload manager has no thread pool
InitBatch ==
    /\ InitBuckets
    /\ fu = FormIdle
    /\ bu = BatchNew(MaxPool, 0)
    /\ bb = BuilderIdle
    /\ qc = QueryCacheIdle
    /\ um = ManagerIdle
    /\ ob = ObjectIdle
    /\ ch = HandleIdle
    /\ ru = ResumableIdle

\* any machine, any thread pool of the upload manager
InitSetup ==
    /\ InitBuckets
    /\ fu = FormIdle
    /\ bu \in {BatchNew(c, m) : c \in 1..MaxPool, m \in 0..MaxPool}
    /\ bb = BuilderIdle
    /\ qc = QueryCacheIdle
    /\ um = ManagerIdle
    /\ ob = ObjectIdle
    /\ ch = HandleIdle
    /\ ru = ResumableIdle

notBatch == <<bucketVars, fu, bb, ru, ch, ob, um, qc>>

\* what a creating call leaves to be seen: the function, the token it was
\* given (if any) and its result
Created(by, tok, res) == Some([by |-> by, token |-> tok, res |-> res])

\* BatchUploader::new_for_upload_manager as it would be without the check
\* of the bucket
NewForUploadManager_NoCheck(tok) ==
    /\ bu.pc = "new"
    /\ bu' = [bu EXCEPT !.pc = "idle", !.core = "UploadManager",
                        !.upload_token = Some(tok),
                        !.created = Created("new_for_upload_manager", Some(tok), "Ok")]
    /\ UNCHANGED notBatch

\* BatchUploader::new_for_upload_manager
NewForUploadManager(tok) ==
    /\ bu.pc = "new"
    /\ bu' = IF tok.bucket = None
             THEN [bu EXCEPT !.pc = "failed",
                             !.created = Created("new_for_upload_manager", Some(tok),
                                                 "BucketIsMissingInUploadToken")]
             ELSE [bu EXCEPT !.pc = "idle", !.core = "UploadManager",
                             !.upload_token = Some(tok),
                             !.created = Created("new_for_upload_manager", Some(tok), "Ok")]
    /\ UNCHANGED notBatch

\* UploadManager::upload_for_upload_token: the region of the bucket is
\* looked up (for_bucket_name) only when the token names a bucket; what
\* is created is a FileUploader
UploadForUploadToken(tok) ==
    /\ bu.pc = "new"
    /\ bu' = IF tok.bucket = None
             THEN [bu EXCEPT !.pc = "failed",
                             !.created = Created("upload_for_upload_token", Some(tok),
                                                 "BucketIsMissingInUploadToken")]
             ELSE [bu EXCEPT !.pc = "file_uploader",
                             !.region_queries = @ + 1,
                             !.upload_token = Some(tok),
                             !.created = Created("upload_for_upload_token", Some(tok), "Ok")]
    /\ UNCHANGED notBatch

\* UploadManager::batch_uploader_for_upload_token
BatchUploaderForUploadToken(tok) ==
    /\ bu.pc = "new"
    /\ bu' = IF tok.bucket = None
             THEN [bu EXCEPT !.pc = "failed",
                             !.created = Created("batch_uploader_for_upload_token", Some(tok),
                                                 "BucketIsMissingInUploadToken")]
             ELSE [bu EXCEPT !.pc = "idle", !.core = "UploadManager",
                             !.region_queries = @ + 1,
                             !.upload_token = Some(tok),
                             !.created = Created("batch_uploader_for_upload_token", Some(tok),
                                                 "Ok")]
    /\ UNCHANGED notBatch

\* BatchUploader::new_for_bucket, from Bucket::batch_uploader
NewForBucket ==
    /\ bu.pc = "new"
    /\ bu' = [bu EXCEPT !.pc = "idle", !.core = "Bucket",
                        !.created = Created("new_for_bucket", None, "Ok")]
    /\ UNCHANGED notBatch

\* the uploader is configured once, before it is used
Fresh == bu.pc = "idle" /\ bu.pushed = 0 /\ bu.starts = 0

\* BatchUploader::thread_pool_size
ThreadPoolSize(n) ==
    /\ Fresh
    /\ bu.thread_pool_size = 0
    /\ bu.max_concurrency = 0
    /\ bu' = [bu EXCEPT !.thread_pool_size = n]
    /\ UNCHANGED notBatch

\* BatchUploader::max_concurrency
MaxConcurrency(n) ==
    /\ Fresh
    /\ bu.max_concurrency = 0
    /\ bu' = [bu EXCEPT !.max_concurrency = n]
    /\ UNCHANGED notBatch

\* BatchUploadJobBuilder::upload_token with a token naming no bucket: Err,
\* there is no job to push
JobBuilderUploadTokenErr(tok) ==
    /\ bu.pc = "idle"
    /\ tok.bucket = None
    /\ ~bu.refused
    /\ bu' = [bu EXCEPT !.refused = TRUE]
    /\ UNCHANGED notBatch

\* BatchUploadJobBuilder (with or without upload_token, with or without
\* on_completed) .upload_stream(), then BatchUploader::push_job
PushJob(tok, cb) ==
    /\ bu.pc = "idle"
    /\ bu.pushed < MaxJobs
    /\ IsSome(tok) => Unwrap(tok).bucket # None
    /\ bu' = [bu EXCEPT !.pushed = @ + 1,
                        !.with_callback[bu.pushed + 1] = cb,
                        !.job_token[bu.pushed + 1] = tok,
                        !.jobs = Append(@, [id |-> bu.pushed + 1, upload_token |-> tok,
                                            on_completed |-> cb])]
    /\ UNCHANGED notBatch

\* build_thread_pool: the workers of the pool start() runs the jobs on; a
\* ThreadPoolBuilder given no num_threads makes one worker per CPU
BuildThreadPool(context) ==
    IF context.manager_pool > 1
    THEN context.manager_pool
    ELSE IF context.thread_pool_size > 0
         THEN context.thread_pool_size
         ELSE context.cpus

\* start(): the pool is built and self.jobs is taken
Start ==
    /\ bu.pc = "idle"
    /\ bu.starts < MaxStarts
    /\ bu' = [bu EXCEPT !.pool = BuildThreadPool(bu), !.local_jobs = bu.jobs,
                        !.jobs = <<>>, !.pc = "scope"]
    /\ UNCHANGED notBatch

\* the body of the scope: while let Some(job) = jobs.pop() { s.spawn(..) }
ScopeSpawn ==
    /\ bu.pc = "scope"
    /\ IF bu.local_jobs = <<>>
       THEN bu' = [bu EXCEPT !.pc = "join"]
       ELSE bu' = [bu EXCEPT !.local_jobs = SubSeq(@, 1, Len(@) - 1),
                             !.spawned = @ \cup {bu.local_jobs[Len(bu.local_jobs)]}]
    /\ UNCHANGED notBatch

\* the workers of the pool that are busy: those handling a job, and the one
\* running the body of the scope
Busy == Cardinality(bu.handling) + (IF bu.pc = "scope" THEN 1 ELSE 0)

\* the token handle_job uploads job with
JobToken(job) ==
    IF bu.core = "UploadManager"
    THEN (IF IsSome(job.upload_token) THEN Unwrap(job.upload_token) ELSE Unwrap(bu.upload_token))
    ELSE GeneratedToken

\* handle_job on a free worker, up to the end of upload_stream
HandleJobUpload(job, result) ==
    /\ job \in bu.spawned
    /\ Busy < bu.pool
    /\ bu' = [bu EXCEPT !.spawned = @ \ {job}, !.handling = @ \cup {job},
                        !.runs[job.id] = @ + 1,
                        !.run_in[job.id] = bu.starts + 1,
                        !.token_used[job.id] = JobToken(job).id,
                        !.results[job.id] = result,
                        !.region_queries = IF bu.core = "UploadManager" THEN @ + 1 ELSE @]
    /\ UNCHANGED notBatch

\* the end of handle_job: on_completed(upload_result), if there is one
HandleJobCompleted(job) ==
    /\ job \in bu.handling
    /\ bu' = [bu EXCEPT !.handling = @ \ {job},
                        !.callbacks[job.id] = IF job.on_completed THEN @ + 1 ELSE @,
                        !.callback_arg[job.id] =
                            IF job.on_completed THEN bu.results[job.id] ELSE @]
    /\ UNCHANGED notBatch

\* start() as it would be if it did not wait for the spawned jobs
StartReturn_NoJoin ==
    /\ bu.pc = "join"
    /\ bu' = [bu EXCEPT !.jobs = bu.local_jobs, !.pool = 0, !.starts = @ + 1,
                        !.pc = "idle"]
    /\ UNCHANGED notBatch

\* start() as it would be if it left a new uploader behind instead of
\* putting the emptied vector back
StartReturn_DropsContext ==
    /\ bu.pc = "join"
    /\ bu.spawned = {}
    /\ bu.handling = {}
    /\ bu' = [bu EXCEPT !.jobs = <<>>, !.pool = 0, !.starts = @ + 1,
                        !.max_concurrency = 0, !.thread_pool_size = 0,
                        !.pc = "idle"]
    /\ UNCHANGED notBatch

\* the scope ends when its body and everything spawned in it have ended;
\* then self.jobs = jobs
StartReturn ==
    /\ bu.pc = "join"
    /\ bu.spawned = {}
    /\ bu.handling = {}
    /\ bu' = [bu EXCEPT !.jobs = bu.local_jobs, !.pool = 0, !.starts = @ + 1,
                        !.pc = "idle"]
    /\ UNCHANGED notBatch

\* a batch uploader is created, configured, given jobs and started
NextBatch ==
    \/ \E tok \in Tokens : NewForUploadManager(tok)
    \/ NewForBucket
    \/ \E n \in 1..MaxPool : ThreadPoolSize(n)
    \/ MaxConcurrency(1)
    \/ \E tok \in {None} \cup {Some(k) : k \in JobTokens}, cb \in BOOLEAN : PushJob(tok, cb)
    \/ Start
    \/ ScopeSpawn
    \/ \E job \in bu.spawned, result \in {"Ok", "Err"} : HandleJobUpload(job, result)
    \/ \E job \in bu.handling : HandleJobCompleted(job)
    \/ StartReturn

SpecBatch == InitBatch /\ [][NextBatch]_vars

\* uploaders and jobs are created from tokens, a batch uploader is
\* configured and started on the pool it builds
NextSetup ==
    \/ \E tok \in Tokens : NewForUploadManager(tok)
    \/ \E tok \in Tokens : UploadForUploadToken(tok)
    \/ \E tok \in Tokens : BatchUploaderForUploadToken(tok)
    \/ NewForBucket
    \/ \E n \in 1..MaxPool : ThreadPoolSize(n)
    \/ \E n \in 1..MaxPool : MaxConcurrency(n)
    \/ \E tok \in JobTokens : JobBuilderUploadTokenErr(tok)
    \/ Start
    \/ ScopeSpawn
    \/ StartReturn

SpecSetup == InitSetup /\ [][NextSetup]_vars

(* ----------------------------- BucketBuilder --------------------------- *)

\* the regions handed to BucketBuilder::region
BuilderRegions == {"z0"}

\* the ids handed to BucketBuilder::region_id
RegionIds == {"Z1"}

\* RegionId::as_region
AsRegion(id) == CASE id = "Z0" -> "z0" [] id = "Z1" -> "z1" [] id = "Z2" -> "z2"

\* the domains handed to prepend_domain; the empty one is no host
BuilderDomains == {"cdn1.com", "cdn2.com", ""}

\* Url::parse("http://" + domain) succeeds
UrlParses(domain) == domain # ""

\* Vec::reverse
Reverse(s) == [i \in 1..Len(s) |-> s[Len(s) + 1 - i]]

\* the names a builder is given
BucketNames == {"bucket-a", "bucket-b"}

\* BucketBuilder::new: a builder for "bucket-a", nothing set; the buckets
\* it builds are numbered 1, 2, ... and `built` keeps their names
BuilderNew ==
    [pc |-> "building", name |-> "bucket-a",
     region |-> None, backup_regions |-> <<>>, domains |-> <<>>,
     built |-> <<>>, resets |-> 0,
     \* history: the regions given by region()/region_id(), the domains
     \* given to prepend_domain, the answers auto_detect_region and
     \* auto_detect_domains got, which of the two were called, the HTTP
     \* calls they made, and the calls that returned an error
     given |-> <<>>, prepended |-> <<>>,
     detected_regions |-> None, detected_domains |-> None,
     tried |-> [e \in {"region", "domain"} |-> FALSE],
     http |-> [e \in {"region", "domain"} |-> 0],
     errors |-> 0]

InitBuilder ==
    /\ InitBuckets
    /\ fu = FormIdle
    /\ bu = BatchIdle
    /\ bb = BuilderNew
    /\ qc = QueryCacheIdle
    /\ um = ManagerIdle
    /\ ob = ObjectIdle
    /\ ch = HandleIdle
    /\ ru = ResumableIdle

\* the region calls and the domain calls of a builder touch different
\* fields: the region calls are taken first. A builder is given its regions
\* or detects them, not both ("if auto_detect_region was called, region and
\* region_id should not be called")
NoDomainCallYet == bb.prepended = <<>> /\ ~bb.tried["domain"] /\ bb.errors = 0

notBuilder == <<bucketVars, fu, bu, ru, ch, ob, um, qc>>

\* BucketBuilder::region as it would be if the last region given became
\* the primary one
BucketBuilderRegion_LastIsPrimary(r) ==
    /\ bb.pc = "building"
    /\ NoDomainCallYet
    /\ ~bb.tried["region"]
    /\ Len(bb.given) < MaxGiven
    /\ bb' = [bb EXCEPT !.region = Some(r),
                        !.backup_regions = IF bb.region = None THEN @
                                           ELSE Append(@, Unwrap(bb.region)),
                        !.given = Append(@, r)]
    /\ UNCHANGED notBuilder

\* BucketBuilder::region: the first region given is the primary one, the
\* later ones are pushed to the backups
BucketBuilderRegion(r) ==
    /\ bb.pc = "building"
    /\ NoDomainCallYet
    /\ ~bb.tried["region"]
    /\ Len(bb.given) < MaxGiven
    /\ bb' = [bb EXCEPT !.region = IF bb.region = None THEN Some(r) ELSE @,
                        !.backup_regions = IF bb.region = None THEN @ ELSE Append(@, r),
                        !.given = Append(@, r)]
    /\ UNCHANGED notBuilder

\* BucketBuilder::region_id
BucketBuilderRegionId(id) == BucketBuilderRegion(AsRegion(id))

\* BucketBuilder::auto_detect_region: Region::query (cache first, else one
\* HTTP call answered by `reply`: Some(list) or None for a failure), then
\* swap_remove(0), which panics on an empty list; the backups are replaced
\* only by a non-empty rest
AutoDetectRegion(reply) ==
    /\ bb.pc = "building"
    /\ NoDomainCallYet
    /\ ~bb.tried["region"]
    /\ CacheMapProbe(regionQueryCache, regionQueryInflight) # "wait"
    /\ LET hit == CacheMapProbe(regionQueryCache, regionQueryInflight) = "hit"
           answer == IF hit THEN regionQueryCache ELSE reply
       IN /\ regionQueryCache' = answer
          /\ IF hit \/ reply = None
             THEN UNCHANGED firstAnswer
             ELSE FirstAnswerNoted("region", Unwrap(reply))
          /\ bb' = [IF answer = None
                    THEN [bb EXCEPT !.errors = @ + 1]
                    ELSE IF Unwrap(answer) = <<>>
                    THEN [bb EXCEPT !.pc = "panicked"]
                    ELSE [bb EXCEPT !.region = Some(SwapRemoveFirst(Unwrap(answer))),
                                    !.backup_regions =
                                        IF SwapRemoveRest(Unwrap(answer)) # <<>>
                                        THEN SwapRemoveRest(Unwrap(answer)) ELSE @,
                                    !.detected_regions = answer]
                      EXCEPT !.tried["region"] = TRUE,
                             !.http["region"] = IF hit THEN @ ELSE @ + 1]
    /\ UNCHANGED <<bucketCells, initializing, regionQueryInflight, domainQueryCache,
                   domainQueryInflight, threadVars, httpCalls, httpFailed, errReturned,
                   used, purged, lastFailed, queryFailed, contended, fu, bu, ru, ch, ob, um, qc>>

\* auto_detect_region on a builder that was given no region
AutoDetectRegionAlone(reply) ==
    /\ bb.given = <<>>
    /\ AutoDetectRegion(reply)

\* BucketBuilder::prepend_domain: pushed when it parses as a host
PrependDomain(domain) ==
    /\ bb.pc = "building"
    /\ Len(bb.prepended) < MaxPrepended
    /\ bb.errors = 0
    /\ bb' = IF UrlParses(domain)
             THEN [bb EXCEPT !.domains = Append(@, domain), !.prepended = Append(@, domain)]
             ELSE [bb EXCEPT !.errors = @ + 1]
    /\ UNCHANGED notBuilder

\* BucketBuilder::auto_detect_domains: domain::query (cache first, else
\* one HTTP call), and the builder's domains are replaced by the answer
AutoDetectDomains(reply) ==
    /\ bb.pc = "building"
    /\ ~bb.tried["domain"]
    /\ bb.prepended = <<>>
    /\ CacheMapProbe(domainQueryCache, domainQueryInflight) # "wait"
    /\ LET hit == CacheMapProbe(domainQueryCache, domainQueryInflight) = "hit"
           answer == IF hit THEN domainQueryCache ELSE reply
       IN /\ domainQueryCache' = answer
          /\ IF hit \/ reply = None
             THEN UNCHANGED firstAnswer
             ELSE FirstAnswerNoted("domain", Unwrap(reply))
          /\ bb' = [IF answer = None
                    THEN [bb EXCEPT !.errors = @ + 1]
                    ELSE [bb EXCEPT !.domains = Unwrap(answer),
                                    !.detected_domains = answer]
                      EXCEPT !.tried["domain"] = TRUE,
                             !.http["domain"] = IF hit THEN @ ELSE @ + 1]
    /\ UNCHANGED <<bucketCells, initializing, regionQueryCache, regionQueryInflight,
                   domainQueryInflight, threadVars, httpCalls, httpFailed, errReturned,
                   used, purged, lastFailed, queryFailed, contended, fu, bu, ru, ch, ob, um, qc>>

\* BucketBuilder::build: the region cell and the backups are set when a
\* region is there, the domains cell when the domains are not empty
\* (reversed: the last one prepended comes first)
Build ==
    /\ bb.pc = "building"
    /\ Len(bb.built) + 1 \in Buckets
    /\ LET b == Len(bb.built) + 1 IN
        /\ region' = [region EXCEPT ![b] = bb.region]
        /\ backup_regions' = [backup_regions EXCEPT ![b] =
                                IF IsSome(bb.region) THEN Some(bb.backup_regions) ELSE None]
        /\ domains' = [domains EXCEPT ![b] =
                                IF bb.domains = <<>> THEN None ELSE Some(Reverse(bb.domains))]
    /\ bb' = [bb EXCEPT !.pc = "built", !.built = Append(@, bb.name)]
    /\ UNCHANGED <<rs_urls, bucket_info, initializing, caches, threadVars, history, fu, bu, ru, ch, ob, um, qc>>

\* what reset() clears of the history: the builder is as new
Forgotten(b) ==
    [b EXCEPT !.given = <<>>, !.prepended = <<>>,
              !.detected_regions = None, !.detected_domains = None,
              !.tried = [e \in {"region", "domain"} |-> FALSE],
              !.errors = 0]

\* BucketBuilder::reset as it would be if it left the domains alone
Reset_KeepsDomains(name) ==
    /\ bb.pc \in {"building", "built"}
    /\ bb.resets < MaxResets
    /\ bb' = [Forgotten(bb) EXCEPT !.pc = "building", !.name = name,
                                   !.region = None, !.backup_regions = <<>>,
                                   !.resets = @ + 1]
    /\ UNCHANGED notBuilder

\* BucketBuilder::reset: the name is replaced and region, backup_regions
\* and domains are cleared; the buckets built so far own clones
Reset(name) ==
    /\ bb.pc \in {"building", "built"}
    /\ bb.resets < MaxResets
    /\ bb' = [Forgotten(bb) EXCEPT !.pc = "building", !.name = name,
                                   !.region = None, !.backup_regions = <<>>,
                                   !.domains = <<>>, !.resets = @ + 1]
    /\ UNCHANGED notBuilder

\* a bucket is configured and built, then threads call region(), regions()
\* and domains() on it while the cache entries may run out
NextBuilder ==
    \/ \E r \in BuilderRegions : BucketBuilderRegion(r)
    \/ \E id \in RegionIds : BucketBuilderRegionId(id)
    \/ \E reply \in {None} \cup {Some(ans) : ans \in RegionAnswers} : AutoDetectRegionAlone(reply)
    \/ \E domain \in BuilderDomains : PrependDomain(domain)
    \/ \E reply \in {None} \cup {Some(ans) : ans \in DomainAnswers} : AutoDetectDomains(reply)
    \/ Build
    \/ /\ bb.pc = "built"
       /\ \E t \in Threads :
            \/ CallRegion(t, 1)
            \/ CallRegions(t, 1)
            \/ CallDomains(t, 1)
    \/ \E t \in Threads :
        \/ RegionGetOrTryInit(t)
        \/ RegionQuery(t)
        \/ \E ans \in RegionAnswers : RegionQueryHttpOk(t, ans)
        \/ RegionQueryHttpErr(t)
        \/ RegionInitFailed(t)
        \/ RegionInit(t)
        \/ RegionPublish(t)
        \/ BucketRegionIterCollect(t)
        \/ DomainsGetOrTryInit(t)
        \/ DomainQuery(t)
        \/ \E ans \in DomainAnswers : DomainQueryHttpOk(t, ans)
        \/ DomainQueryHttpErr(t)
        \/ DomainsInitFailed(t)
        \/ DomainsPublish(t)
    \/ /\ bb.pc = "built"
       /\ ClearQueryCache

SpecBuilder == InitBuilder /\ [][NextBuilder]_vars

\* the domains of a bucket are configured, the bucket is built, then
\* threads call domains() and get_domain_and_backup_domains() on it
NextDomains ==
    \/ \E domain \in BuilderDomains : PrependDomain(domain)
    \/ \E reply \in {None} \cup {Some(ans) : ans \in DomainAnswers} : AutoDetectDomains(reply)
    \/ Build
    \/ /\ bb.pc = "built"
       /\ \E t \in Threads :
            \/ CallDomains(t, 1)
            \/ CallGetDomainAndBackupDomains(t, 1)
    \/ \E t \in Threads :
        \/ DomainsGetOrTryInit(t)
        \/ DomainQuery(t)
        \/ \E ans \in DomainAnswers : DomainQueryHttpOk(t, ans)
        \/ DomainQueryHttpErr(t)
        \/ DomainsInitFailed(t)
        \/ DomainsPublish(t)
    \/ /\ bb.pc = "built"
       /\ ClearQueryCache

SpecDomains == InitBuilder /\ [][NextDomains]_vars

\* a builder is configured, may build a bucket, is reset and builds again
NextReset ==
    \/ /\ bb.resets = 0
       /\ \/ \E r \in BuilderRegions : BucketBuilderRegion(r)
          \/ \E id \in RegionIds : BucketBuilderRegionId(id)
          \/ \E reply \in {None} \cup {Some(ans) : ans \in RegionAnswers} :
                AutoDetectRegionAlone(reply)
          \/ \E domain \in BuilderDomains : PrependDomain(domain)
          \/ \E reply \in {None} \cup {Some(ans) : ans \in DomainAnswers} :
                AutoDetectDomains(reply)
    \/ Build
    \/ \E name \in BucketNames : Reset(name)

SpecReset == InitBuilder /\ [][NextReset]_vars

\* what the Service may answer to the region query of auto_detect_region:
\* also a bucket with its primary region only
DetectAnswers == RegionAnswers \cup {<<"z2">>}

\* a builder is given regions by region()/region_id(), then detects them,
\* the bucket is built and threads call regions() on it
NextDetect ==
    \/ \E r \in BuilderRegions : BucketBuilderRegion(r)
    \/ \E id \in RegionIds : BucketBuilderRegionId(id)
    \/ \E reply \in {None} \cup {Some(ans) : ans \in DetectAnswers} : AutoDetectRegion(reply)
    \/ Build
    \/ /\ bb.pc = "built"
       /\ \E t \in Threads : CallRegions(t, 1)
    \/ \E t \in Threads :
        \/ RegionGetOrTryInit(t)
        \/ RegionQuery(t)
        \/ \E ans \in RegionAnswers : RegionQueryHttpOk(t, ans)
        \/ RegionQueryHttpErr(t)
        \/ RegionInitFailed(t)
        \/ RegionInit(t)
        \/ RegionPublish(t)
        \/ BucketRegionIterCollect(t)

SpecDetect == InitBuilder /\ [][NextDetect]_vars

(* --------------------------- resumable policy -------------------------- *)

\* ResumablePolicy
Threshold(t) == [kind |-> "Threshold", threshold |-> t]
Never == [kind |-> "Never", threshold |-> 0]
Always == [kind |-> "Always", threshold |-> 0]
ResumablePolicies == {Threshold(t) : t \in 1..MaxThreshold} \cup {Never, Always}

\* ObjectUploader::upload_stream: the pipeline taken for a policy and a
\* data size (None when it cannot be known)
Dispatch(policy, known_size) ==
    CASE policy.kind = "Never" -> "form"
      [] policy.kind = "Always" -> "resumable"
      [] OTHER -> IF known_size # None /\ known_size[1] <= policy.threshold
                  THEN "form" ELSE "resumable"

\* BatchUploadJobBuilder::default() under a configuration
JobBuilderDefault(upload_threshold) ==
    [pc |-> "job_builder", upload_threshold |-> upload_threshold,
     resumable_policy |-> None, target |-> "none", expected_data_size |-> None,
     uploader_policy |-> None, pipeline |-> "none",
     \* history: the policies the builder was given, in call order; whether
     \* the uploader was made for a batch job
     called |-> <<>>, of_job |-> TRUE]

\* an ObjectUploader used by itself, with a policy and a stream whose
\* size is known or not
ObjectUploaderAlone(upload_threshold, policy, known_size) ==
    [JobBuilderDefault(upload_threshold) EXCEPT !.pc = "uploader", !.target = "Stream",
                                                !.expected_data_size = known_size,
                                                !.uploader_policy = Some(policy),
                                                !.of_job = FALSE]

InitPolicy ==
    /\ InitBuckets
    /\ fu = FormIdle
    /\ bu \in {JobBuilderDefault(c) : c \in 1..MaxThreshold}
              \cup {ObjectUploaderAlone(c, p, k) :
                        c \in 1..MaxThreshold, p \in ResumablePolicies,
                        k \in {None} \cup {Some(n) : n \in 0..MaxSize}}
    /\ bb = BuilderIdle
    /\ qc = QueryCacheIdle
    /\ um = ManagerIdle
    /\ ob = ObjectIdle
    /\ ch = HandleIdle
    /\ ru = ResumableIdle

\* upload_threshold / always_be_resumable / never_be_resumable of the job
\* builder
SetsPolicy(policy) ==
    /\ bu.pc = "job_builder"
    /\ Len(bu.called) < MaxPolicyCalls
    /\ bu' = [bu EXCEPT !.resumable_policy = Some(policy), !.called = Append(@, policy)]
    /\ UNCHANGED notBatch

UploadThreshold(threshold) == SetsPolicy(Threshold(threshold))

AlwaysBeResumable == SetsPolicy(Always)

NeverBeResumable == SetsPolicy(Never)

\* BatchUploadJobBuilder::upload_file: the size is the file's length
JobBuilderUploadFile(len) ==
    /\ bu.pc = "job_builder"
    /\ bu' = [bu EXCEPT !.pc = "job", !.target = "File", !.expected_data_size = Some(len)]
    /\ UNCHANGED notBatch

\* BatchUploadJobBuilder::upload_stream: the size is the caller's
JobBuilderUploadStream(size) ==
    /\ bu.pc = "job_builder"
    /\ bu' = [bu EXCEPT !.pc = "job", !.target = "Stream", !.expected_data_size = Some(size)]
    /\ UNCHANGED notBatch

\* handle_job as it would be if the policy of the job were left behind
HandleJobPolicy_Default ==
    /\ bu.pc = "job"
    /\ bu' = [bu EXCEPT !.pc = "uploader",
                        !.uploader_policy = Some(Threshold(bu.upload_threshold))]
    /\ UNCHANGED notBatch

\* handle_job: the uploader starts with the configured threshold and is
\* given the policy of the job when the job has one
HandleJobPolicy ==
    /\ bu.pc = "job"
    /\ bu' = [bu EXCEPT !.pc = "uploader",
                        !.uploader_policy =
                            IF bu.resumable_policy # None
                            THEN bu.resumable_policy
                            ELSE Some(Threshold(bu.upload_threshold))]
    /\ UNCHANGED notBatch

\* object_uploader.upload_stream(target, expected_data_size, ..)
ObjectUploaderUploadStream ==
    /\ bu.pc = "uploader"
    /\ bu' = [bu EXCEPT !.pc = "dispatched",
                        !.pipeline = Dispatch(bu.uploader_policy[1], bu.expected_data_size)]
    /\ UNCHANGED notBatch

NextPolicy ==
    \/ \E t \in 1..MaxThreshold : UploadThreshold(t)
    \/ AlwaysBeResumable
    \/ NeverBeResumable
    \/ \E n \in 0..MaxSize : JobBuilderUploadFile(n)
    \/ \E n \in 0..MaxSize : JobBuilderUploadStream(n)
    \/ HandleJobPolicy
    \/ ObjectUploaderUploadStream

SpecPolicy == InitPolicy /\ [][NextPolicy]_vars

(* -------------------------- ResumableUploader -------------------------- *)

\* the context the service returns for a block it was sent whole: it names
\* the block and the region it was uploaded to
Ctx(block, in_region) == [block |-> block, region |-> in_region]

\* the context the service returns for chunk `chunk` of a block, in the
\* `gen`-th start of the block in a region
ChunkCtx(block, in_region, gen, chunk) ==
    [block |-> block, region |-> in_region, gen |-> gen, chunk |-> chunk]

\* a resumable upload of `blocks` blocks of `chunks` chunks each, over
\* `regions` regions with max_concurrency workers
ResumableUploaderBuilt(blocks, chunks, regions, max_concurrency) ==
    [pc |-> "uploading", blocks |-> blocks, chunks |-> chunks, regions |-> regions,
     max_concurrency |-> max_concurrency, region |-> 1,
     \* per block: "todo", "uploading" (mkblk sent, chunks going) or "done",
     \* and the final context of a block that is done
     block |-> [b \in 1..blocks |-> "todo"],
     ctx |-> [b \in 1..blocks |-> None],
     \* per block: the chunks acknowledged in this run, whether a chunk request is
     \* under way, the latest context returned, how often the block was
     \* started
     acked |-> [b \in 1..blocks |-> 0],
     inflight |-> [b \in 1..blocks |-> FALSE],
     latest |-> [b \in 1..blocks |-> None],
     gen |-> [b \in 1..blocks |-> 0],
     \* the body of the mkfile request, and the result of the upload
     mkfile |-> None, result |-> "none",
     \* history: the blocks of the current region in the order they were
     \* completed; per block the chunk requests of its current start; the
     \* blocks restarted
     completed |-> <<>>,
     requests |-> [b \in 1..blocks |-> <<>>],
     restarts |-> 0,
     \* the recording of an earlier run of the same upload, None when there
     \* is none or the input is a stream: per block "none", "fresh" (a
     \* record with expires_at > now + 2h) or "stale"; history: the
     \* recording found at the start
     recording |-> None, found |-> None]

InitResumable ==
    /\ InitBuckets
    /\ fu = FormIdle
    /\ bu = BatchIdle
    /\ bb = BuilderIdle
    /\ qc = QueryCacheIdle
    /\ um = ManagerIdle
    /\ ob = ObjectIdle
    /\ ch = HandleIdle
    /\ ru \in {ResumableUploaderBuilt(n, k, r, c) :
                    n \in 1..MaxBlocks, k \in 1..MaxChunks,
                    r \in 1..MaxRegions, c \in 1..MaxWorkers}

notResumable == <<bucketVars, fu, bu, bb, ch, ob, um, qc>>

BlocksIn(state) == {b \in 1..ru.blocks : ru.block[b] = state}

\* the blocks are sliced by one thread, in order; a free worker takes the
\* next one and sends its first chunk (mkblk)
MkBlk(b) ==
    /\ ru.pc = "uploading"
    /\ ru.block[b] = "todo"
    /\ \A a \in 1..(b - 1) : ru.block[a] # "todo"
    /\ Cardinality(BlocksIn("uploading")) < ru.max_concurrency
    /\ ru' = [ru EXCEPT !.block[b] = "uploading",
                        !.inflight[b] = TRUE,
                        !.gen[b] = @ + 1,
                        !.requests[b] = <<[kind |-> "mkblk", chunk |-> 1, ctx |-> None]>>]
    /\ UNCHANGED notResumable

\* a chunk that is not the last of its block is acknowledged: the
\* context returned replaces the one held for the block
ChunkAcked(b) ==
    /\ ru.pc = "uploading"
    /\ ru.block[b] = "uploading"
    /\ ru.inflight[b]
    /\ ru.acked[b] + 1 < ru.chunks
    /\ ru' = [ru EXCEPT !.acked[b] = @ + 1,
                        !.inflight[b] = FALSE,
                        !.latest[b] = Some(ChunkCtx(b, ru.region, ru.gen[b], ru.acked[b] + 1))]
    /\ UNCHANGED notResumable

\* the next chunk as it would be if it were sent without waiting for the
\* answer to the chunk before it
BPut_NoWait(b) ==
    /\ ru.pc = "uploading"
    /\ ru.block[b] = "uploading"
    /\ ru.acked[b] >= 1
    /\ Len(ru.requests[b]) < ru.chunks + 1
    /\ ru' = [ru EXCEPT !.inflight[b] = TRUE,
                        !.requests[b] = Append(@, [kind |-> "bput",
                                                   chunk |-> ru.acked[b] + 1,
                                                   ctx |-> ru.latest[b]])]
    /\ UNCHANGED notResumable

\* the next chunk of a block is sent (bput) with the latest context of
\* the block, once the chunk before it is acknowledged
BPut(b) ==
    /\ ru.pc = "uploading"
    /\ ru.block[b] = "uploading"
    /\ ~ru.inflight[b]
    /\ ru.acked[b] >= 1
    /\ ru' = [ru EXCEPT !.inflight[b] = TRUE,
                        !.requests[b] = Append(@, [kind |-> "bput",
                                                   chunk |-> ru.acked[b] + 1,
                                                   ctx |-> ru.latest[b]])]
    /\ UNCHANGED notResumable

\* the context of a block is about to expire, or the service reports a
\* crc32 mismatch: the progress of the block is discarded and the block
\* is started again
BlockRestarted(b) ==
    /\ ru.pc = "uploading"
    /\ ru.block[b] = "uploading"
    /\ ru.restarts < MaxRestarts
    /\ ru' = [ru EXCEPT !.acked[b] = 0,
                        !.inflight[b] = TRUE,
                        !.latest[b] = None,
                        !.gen[b] = @ + 1,
                        !.requests[b] = <<[kind |-> "mkblk", chunk |-> 1, ctx |-> None]>>,
                        !.restarts = @ + 1]
    /\ UNCHANGED notResumable

\* the last chunk of a block is acknowledged: its final context is kept
\* for the block
BlockCompleted(b) ==
    /\ ru.pc = "uploading"
    /\ ru.block[b] = "uploading"
    /\ ru.inflight[b]
    /\ ru.acked[b] + 1 = ru.chunks
    /\ ru' = [ru EXCEPT !.block[b] = "done",
                        !.acked[b] = @ + 1,
                        !.inflight[b] = FALSE,
                        !.latest[b] = Some(ChunkCtx(b, ru.region, ru.gen[b], ru.chunks)),
                        !.ctx[b] = Some(Ctx(b, ru.region)),
                        !.completed = Append(@, b)]
    /\ UNCHANGED notResumable

\* a chunk fails with a ZoneUnretryableError: the whole upload is aborted
\* and restarted against the next region, all block progress discarded;
\* after the last region the upload fails
BlockZoneUnretryable(b) ==
    /\ ru.pc = "uploading"
    /\ ru.block[b] = "uploading"
    /\ ru.inflight[b]
    /\ ru' = IF ru.region < ru.regions
             THEN [ru EXCEPT !.region = @ + 1,
                             !.block = [a \in 1..ru.blocks |-> "todo"],
                             !.ctx = [a \in 1..ru.blocks |-> None],
                             !.acked = [a \in 1..ru.blocks |-> 0],
                             !.inflight = [a \in 1..ru.blocks |-> FALSE],
                             !.latest = [a \in 1..ru.blocks |-> None],
                             !.gen = [a \in 1..ru.blocks |-> 0],
                             !.requests = [a \in 1..ru.blocks |-> <<>>],
                             !.completed = <<>>]
             ELSE [ru EXCEPT !.pc = "done", !.result = "ZoneUnretryableError"]
    /\ UNCHANGED notResumable

\* a chunk fails with an error that is not retried: the upload fails
BlockFailed(b) ==
    /\ ru.pc = "uploading"
    /\ ru.block[b] = "uploading"
    /\ ru.inflight[b]
    /\ ru' = [ru EXCEPT !.pc = "done", !.result = "Err"]
    /\ UNCHANGED notResumable

\* mkfile as it would be if the contexts were joined in the order the
\* blocks were completed
MkFile_AsCompleted ==
    /\ ru.pc = "uploading"
    /\ BlocksIn("done") = 1..ru.blocks
    /\ ru' = [ru EXCEPT !.pc = "mkfile",
                        !.mkfile = Some([i \in 1..ru.blocks |-> ru.ctx[ru.completed[i]][1]])]
    /\ UNCHANGED notResumable

\* after all blocks are complete their final contexts are collected in
\* block order and sent as the body of mkfile
MkFile ==
    /\ ru.pc = "uploading"
    /\ BlocksIn("done") = 1..ru.blocks
    /\ ru' = [ru EXCEPT !.pc = "mkfile",
                        !.mkfile = Some([i \in 1..ru.blocks |-> ru.ctx[i][1]])]
    /\ UNCHANGED notResumable

\* the answer to mkfile ends the upload
MkFileAnswered(ok) ==
    /\ ru.pc = "mkfile"
    /\ ru' = [ru EXCEPT !.pc = "done", !.result = IF ok THEN "Ok" ELSE "Err"]
    /\ UNCHANGED notResumable

NextResumable ==
    \/ \E b \in 1..ru.blocks : MkBlk(b)
    \/ \E b \in 1..ru.blocks : ChunkAcked(b)
    \/ \E b \in 1..ru.blocks : BPut(b)
    \/ \E b \in 1..ru.blocks : BlockRestarted(b)
    \/ \E b \in 1..ru.blocks : BlockCompleted(b)
    \/ \E b \in 1..ru.blocks : BlockZoneUnretryable(b)
    \/ \E b \in 1..ru.blocks : BlockFailed(b)
    \/ MkFile
    \/ \E ok \in BOOLEAN : MkFileAnswered(ok)

SpecResumable == InitResumable /\ [][NextResumable]_vars

\* the members of a set of block indices, in rising order
RECURSIVE SetToSortedSeq(_)
SetToSortedSeq(S) ==
    IF S = {} THEN <<>>
    ELSE LET m == CHOOSE x \in S : \A y \in S : x <= y
         IN <<m>> \o SetToSortedSeq(S \ {m})

\* the recordings an upload of `blocks` blocks may find
Recordings(blocks) == {None} \cup {Some(rec) : rec \in [1..blocks -> {"none", "fresh", "stale"}]}

\* the blocks a recording has a record of
Recorded(rec) == {b \in DOMAIN rec : rec[b] # "none"}

\* a recording is resumed from when all its records are fresh and the
\* blocks recorded are a prefix of the file
Resumable(rec) ==
    /\ \A b \in Recorded(rec) : rec[b] = "fresh"
    /\ Recorded(rec) = 1..Cardinality(Recorded(rec))

\* the upload of a file to one region by MaxWorkers workers, before the
\* recorder is consulted
InitResume ==
    /\ InitBuckets
    /\ fu = FormIdle
    /\ bu = BatchIdle
    /\ bb = BuilderIdle
    /\ qc = QueryCacheIdle
    /\ um = ManagerIdle
    /\ ob = ObjectIdle
    /\ ch = HandleIdle
    /\ \E n \in 1..MaxBlocks, k \in 1..MaxChunks :
            \E rec \in Recordings(n) :
                ru = [ResumableUploaderBuilt(n, k, 1, MaxWorkers) EXCEPT !.pc = "start",
                                                                !.recording = rec,
                                                                !.found = rec]

\* the start of the upload as it would be if every fresh record were
\* taken over, whatever else the recording holds
ReadRecording_TakesFresh ==
    /\ ru.pc = "start"
    /\ ru' = IF ru.recording # None
             THEN LET rec == ru.recording[1]
                      kept == {b \in Recorded(rec) : rec[b] = "fresh"}
                  IN [ru EXCEPT !.pc = "uploading",
                                !.block = [b \in 1..ru.blocks |->
                                                IF b \in kept THEN "done" ELSE "todo"],
                                !.ctx = [b \in 1..ru.blocks |->
                                                IF b \in kept THEN Some(Ctx(b, ru.region)) ELSE None],
                                !.completed = SetToSortedSeq(kept)]
             ELSE [ru EXCEPT !.pc = "uploading"]
    /\ UNCHANGED notResumable

\* the start of the upload: a recording that can be resumed from gives the
\* blocks it holds as done, with their contexts; any other is discarded
ReadRecording ==
    /\ ru.pc = "start"
    /\ ru' = IF ru.recording # None /\ Resumable(ru.recording[1])
             THEN LET kept == Recorded(ru.recording[1])
                  IN [ru EXCEPT !.pc = "uploading",
                                !.block = [b \in 1..ru.blocks |->
                                                IF b \in kept THEN "done" ELSE "todo"],
                                !.ctx = [b \in 1..ru.blocks |->
                                                IF b \in kept THEN Some(Ctx(b, ru.region)) ELSE None],
                                !.completed = SetToSortedSeq(kept)]
             ELSE [ru EXCEPT !.pc = "uploading", !.recording = None]
    /\ UNCHANGED notResumable

\* the upload of a file whose blocks are not restarted
NextResume ==
    \/ ReadRecording
    \/ \E b \in 1..ru.blocks : MkBlk(b)
    \/ \E b \in 1..ru.blocks : ChunkAcked(b)
    \/ \E b \in 1..ru.blocks : BPut(b)
    \/ \E b \in 1..ru.blocks : BlockCompleted(b)
    \/ \E b \in 1..ru.blocks : BlockFailed(b)
    \/ MkFile
    \/ \E ok \in BOOLEAN : MkFileAnswered(ok)

SpecResume == InitResume /\ [][NextResume]_vars

(* ------------------------- FormUploaderBuilder ------------------------- *)

\* a 32-bit word is the set of its bits that are 1 (bit 0 the lowest)
Word == 0..31

\* the reflected CRC-32/IEEE polynomial 0xEDB88320
Poly == {31, 30, 29, 27, 26, 24, 23, 21, 20, 19, 15, 9, 8, 5}

XorWord(a, b) == (a \ b) \cup (b \ a)

ShiftRight(a) == {i - 1 : i \in a \ {0}}

\* the bits of a byte
ByteBits(v) == {i \in 0..7 : (v \div (2 ^ i)) % 2 = 1}

\* one bit of the CRC register
RECURSIVE CrcRounds(_, _)
CrcRounds(reg, n) ==
    IF n = 0 THEN reg
    ELSE CrcRounds(IF 0 \in reg THEN XorWord(ShiftRight(reg), Poly) ELSE ShiftRight(reg), n - 1)

RECURSIVE CrcUpdate(_, _)
CrcUpdate(reg, bytes) ==
    IF bytes = <<>> THEN reg
    ELSE CrcUpdate(CrcRounds(XorWord(reg, ByteBits(Head(bytes))), 8), Tail(bytes))

\* CRC-32/IEEE of a sequence of bytes
Crc32(bytes) == Word \ CrcUpdate(Word, bytes)

\* the bytes a stream may hold
StreamBytes == {0, 1}

Streams == UNION {[1..n -> StreamBytes] : n \in 0..MaxStreamLen}

\* what reading a stream to its end gives: the bytes from its position
ReadToEnd(stream, pos) == SubSeq(stream, pos + 1, Len(stream))

\* FormUploaderBuilder::new: the multipart holds the token
FormUploaderBuilderNew ==
    [pc |-> "builder", multipart |-> <<[name |-> "token", value |-> "upload_token"]>>,
     \* seekable_stream: the stream given, where it stood, the checksum flag
     stream |-> <<>>, pos |-> 0, checksum_enabled |-> FALSE]

InitFormBuilder ==
    /\ InitBuckets
    /\ fu = FormUploaderBuilderNew
    /\ bu = BatchIdle
    /\ bb = BuilderIdle
    /\ qc = QueryCacheIdle
    /\ um = ManagerIdle
    /\ ob = ObjectIdle
    /\ ru = ResumableIdle
    /\ ch = HandleIdle

notForm == <<bucketVars, bu, bb, ru, ch, ob, um, qc>>

\* key / var / metadata: one more text part, each used once at most here
AddText(name, value) ==
    /\ fu.pc = "builder"
    /\ \A i \in 1..Len(fu.multipart) : fu.multipart[i].name # name
    /\ fu' = [fu EXCEPT !.multipart = Append(@, [name |-> name, value |-> value])]
    /\ UNCHANGED notForm

FormUploaderBuilderKey == AddText("key", "key")

FormUploaderBuilderVar == AddText("x:var_key", "var_value")

FormUploaderBuilderMetadata == AddText("x-qn-meta-metadata_key", "metadata_value")

\* seekable_stream with a stream standing at pos: with the checksum
\* enabled the stream is read to its end for the crc32 and rewound to 0;
\* the file part is what the stream gives from where it stands when the
\* body is read (upload_multipart), the crc32 part follows it
SeekableStream(stream, pos, checksum_enabled) ==
    /\ fu.pc = "builder"
    /\ LET at == IF checksum_enabled THEN 0 ELSE pos
           file == [name |-> "file", value |-> ReadToEnd(stream, at)]
           crc32 == [name |-> "crc32", value |-> Crc32(ReadToEnd(stream, pos))]
       IN fu' = [fu EXCEPT !.pc = "built",
                           !.stream = stream, !.pos = pos,
                           !.checksum_enabled = checksum_enabled,
                           !.multipart =
                                IF checksum_enabled
                                THEN Append(Append(@, file), crc32)
                                ELSE Append(@, file)]
    /\ UNCHANGED notForm

NextFormBuilder ==
    \/ FormUploaderBuilderKey
    \/ FormUploaderBuilderVar
    \/ FormUploaderBuilderMetadata
    \/ \E stream \in Streams, checksum_enabled \in BOOLEAN :
            \E pos \in 0..Len(stream) : SeekableStream(stream, pos, checksum_enabled)

SpecFormBuilder == InitFormBuilder /\ [][NextFormBuilder]_vars

(* ------------------------- Object operations --------------------------- *)

\* an Object of a bucket, under a configuration with http_request_retries
ObjectNew(retries) ==
    [pc |-> "object", http_request_retries |-> retries,
     \* the request built: the operation, its force argument, its method and
     \* its idempotent flag
     op |-> "none", force |-> FALSE, method |-> "none", idempotent |-> FALSE,
     \* history: the times the request was sent, and the result
     sent |-> 0, result |-> "none"]

InitObject ==
    /\ InitBuckets
    /\ fu = FormIdle
    /\ bu = BatchIdle
    /\ bb = BuilderIdle
    /\ qc = QueryCacheIdle
    /\ um = ManagerIdle
    /\ ru = ResumableIdle
    /\ ch = HandleIdle
    /\ ob \in {ObjectNew(n) : n \in 0..MaxRetries}

notObject == <<bucketVars, fu, bu, bb, ru, ch, um, qc>>

\* the request builder's send(): the request goes out
RequestSent(operation, force, method, idempotent) ==
    /\ ob.pc = "object"
    /\ ob' = [ob EXCEPT !.pc = "sending", !.op = operation, !.force = force, !.method = method,
                        !.idempotent = idempotent, !.sent = 1]
    /\ UNCHANGED notObject

\* Object::get_info: GET stat, idempotent
GetInfo == RequestSent("get_info", FALSE, "GET", TRUE)

\* Object::delete: POST delete
Delete == RequestSent("delete", FALSE, "POST", FALSE)

\* Object::move_to: POST move
MoveTo(force) == RequestSent("move_to", force, "POST", FALSE)

\* copy_to as it would be if the request were idempotent whatever force
CopyTo_Idempotent(force) == RequestSent("copy_to", force, "POST", TRUE)

\* Object::copy_to: POST copy, idempotent if forced
CopyTo(force) == RequestSent("copy_to", force, "POST", force)

\* FormUploader::send_form_request: POST "/", idempotent
FormPost == RequestSent("send_form_request", FALSE, "POST", TRUE)

\* a network-level error: the HTTP client sends an idempotent request
\* again while retries are left, and returns the error otherwise
NetworkError ==
    /\ ob.pc = "sending"
    /\ ob' = IF ob.idempotent /\ ob.sent <= ob.http_request_retries
             THEN [ob EXCEPT !.sent = @ + 1]
             ELSE [ob EXCEPT !.pc = "done", !.result = "Err"]
    /\ UNCHANGED notObject

\* the request is answered
Answered ==
    /\ ob.pc = "sending"
    /\ ob' = [ob EXCEPT !.pc = "done", !.result = "Ok"]
    /\ UNCHANGED notObject

NextObject ==
    \/ GetInfo
    \/ Delete
    \/ \E force \in BOOLEAN : MoveTo(force)
    \/ \E force \in BOOLEAN : CopyTo(force)
    \/ FormPost
    \/ NetworkError
    \/ Answered

SpecObject == InitObject /\ [][NextObject]_vars

(* ------------------- handles of the C interface ----------------------- *)

\* the null pointer
Null == 0

\* the accessors of a handle, by the type of the handle
Accessors(type) ==
    IF type = "qiniu_ng_upload_response_t"
    THEN {"get_key", "get_hash", "get_string"}
    ELSE {"get_content_type", "get_size", "get_etag", "get_metadata"}

HandleTypes == {"qiniu_ng_upload_response_t", "qiniu_ng_header_info_t"}

\* a handle the caller was given: it holds the address (1) of a boxed
\* instance
HandleGiven(type) ==
    [pc |-> "held", type |-> type,
     \* the caller's handle, and whether the instance at address 1 is alive
     handle |-> 1, live |-> TRUE,
     \* history: how often the instance was released, the calls made, the
     \* accessors called while the handle was valid, free calls that found
     \* nothing to free, and what is_freed answered last, with the
     \* releases at that time
     released |-> 0, calls |-> 0, got |-> {}, noops |-> 0, is_freed |-> None]

InitHandle ==
    /\ InitBuckets
    /\ fu = FormIdle
    /\ bu = BatchIdle
    /\ bb = BuilderIdle
    /\ qc = QueryCacheIdle
    /\ um = ManagerIdle
    /\ ob = ObjectIdle
    /\ ru = ResumableIdle
    /\ ch \in {HandleGiven(type) : type \in HandleTypes}

notHandle == <<bucketVars, fu, bu, bb, ru, ob, um, qc>>

\* Option::<Box<T>>::from(handle): None for the null handle, else the box
\* at the address the handle holds
BoxFrom(handle) == IF handle = Null THEN None ELSE Some(handle)

\* an accessor: the box is taken from the handle (unwrap() panics on the
\* null handle), read, and turned back into a raw pointer without being
\* dropped
Accessor(name) ==
    /\ ch.pc = "held"
    /\ ch.calls < MaxCalls
    /\ name \in Accessors(ch.type)
    /\ ch' = IF BoxFrom(ch.handle) = None
             THEN [ch EXCEPT !.pc = "panicked", !.calls = @ + 1]
             ELSE [ch EXCEPT !.calls = @ + 1, !.got = @ \cup {name}]
    /\ UNCHANGED notHandle

\* free as it would be if the caller's handle were left as it is
Free_KeepsHandle(given) ==
    /\ ch.pc = "held"
    /\ ch.calls < MaxCalls
    /\ ch' = IF given /\ BoxFrom(ch.handle) # None
             THEN [ch EXCEPT !.calls = @ + 1, !.live = FALSE, !.released = @ + 1]
             ELSE [ch EXCEPT !.calls = @ + 1, !.noops = @ + 1]
    /\ UNCHANGED notHandle

\* qiniu_ng_upload_response_free / qiniu_ng_header_info_free, given the
\* address of the caller's handle or a null pointer: the box taken from
\* the handle is dropped and the handle is set to null
Free(given) ==
    /\ ch.pc = "held"
    /\ ch.calls < MaxCalls
    /\ ch' = IF given /\ BoxFrom(ch.handle) # None
             THEN [ch EXCEPT !.calls = @ + 1, !.live = FALSE, !.released = @ + 1,
                             !.handle = Null]
             ELSE IF given
             THEN [ch EXCEPT !.calls = @ + 1, !.noops = @ + 1, !.handle = Null]
             ELSE [ch EXCEPT !.calls = @ + 1, !.noops = @ + 1]
    /\ UNCHANGED notHandle

\* qiniu_ng_upload_response_is_freed: is_null() of the handle
IsFreed ==
    /\ ch.pc = "held"
    /\ ch.calls < MaxCalls
    /\ ch.type = "qiniu_ng_upload_response_t"
    /\ ch' = [ch EXCEPT !.calls = @ + 1,
                        !.is_freed = Some([answer |-> ch.handle = Null,
                                           released |-> ch.released])]
    /\ UNCHANGED notHandle

NextHandle ==
    \/ \E name \in Accessors(ch.type) : Accessor(name)
    \/ \E given \in BOOLEAN : Free(given)
    \/ IsFreed

SpecHandle == InitHandle /\ [][NextHandle]_vars

(* ---------------- UploadManager::for_bucket(_name) --------------------- *)

\* Region::all(): the built-in table of regions, in its order
RegionAll == <<"z0", "z1", "z2", "na0", "as0">>

\* Region::up_urls_owned: the up URLs of a region under the scheme asked for
UpUrlsOwned(r, use_https) ==
    LET scheme == IF use_https THEN "https" ELSE "http" IN
    <<[scheme |-> scheme, host |-> "upload", region |-> r],
      [scheme |-> scheme, host |-> "up", region |-> r]>>

\* extract_up_urls_list_from_regions: one inner list per region, in the
\* order of the iterator
ExtractUpUrlsListFromRegions(regions, use_https) ==
    [i \in 1..Len(regions) |-> UpUrlsOwned(regions[i], use_https)]

\* all_possible_up_urls_list: the same over Region::all()
AllPossibleUpUrlsList(use_https) ==
    [i \in 1..Len(RegionAll) |-> UpUrlsOwned(RegionAll[i], use_https)]

\* UploadManager::new over a Config
UploadManagerNew(use_https) ==
    [pc |-> "new", use_https |-> use_https,
     \* history: the constructor used, what the discovery returned
     via |-> "none", discovery |-> "none", answered |-> <<>>,
     up_urls_list |-> <<>>]

InitManager ==
    /\ InitBuckets
    /\ fu = FormIdle
    /\ bu = BatchIdle
    /\ bb = BuilderIdle
    /\ qc = QueryCacheIdle
    /\ ru = ResumableIdle
    /\ ch = HandleIdle
    /\ ob = ObjectIdle
    /\ um \in {UploadManagerNew(https) : https \in BOOLEAN}

notManager == <<bucketVars, fu, bu, bb, ru, ch, ob, qc>>

\* BucketUploaderBuilder::new(name, up_urls_list, config)
BucketUploaderBuilderNew(via, discovery, answered, list) ==
    [um EXCEPT !.pc = "bucket_uploader_builder", !.via = via, !.discovery = discovery,
               !.answered = answered, !.up_urls_list = list]

\* for_bucket as it would be if it kept an empty list when regions() fails
ForBucket_NoFallback(t) ==
    /\ um.pc = "new"
    /\ obs[t].op = "regions"
    /\ pc[t] \in {"returned", "panicked"}
    /\ um' = CASE obs[t].res = "Ok" ->
                    BucketUploaderBuilderNew("for_bucket", "Ok", obs[t].val,
                        ExtractUpUrlsListFromRegions(obs[t].val, um.use_https))
               [] obs[t].res = "Panic" ->
                    [um EXCEPT !.pc = "panicked", !.via = "for_bucket", !.discovery = "Panic"]
               [] OTHER ->
                    BucketUploaderBuilderNew("for_bucket", "Err", <<>>, <<>>)
    /\ UNCHANGED notManager

\* UploadManager::for_bucket, the bucket.regions() in it being the call
\* thread t has made: its regions are mapped to their up URLs, an error is
\* replaced by the lists of all the built-in regions; a panic of regions()
\* goes through for_bucket
ForBucket(t) ==
    /\ um.pc = "new"
    /\ obs[t].op = "regions"
    /\ pc[t] \in {"returned", "panicked"}
    /\ um' = CASE obs[t].res = "Ok" ->
                    BucketUploaderBuilderNew("for_bucket", "Ok", obs[t].val,
                        ExtractUpUrlsListFromRegions(obs[t].val, um.use_https))
               [] obs[t].res = "Panic" ->
                    [um EXCEPT !.pc = "panicked", !.via = "for_bucket", !.discovery = "Panic"]
               [] OTHER ->
                    BucketUploaderBuilderNew("for_bucket", "Err", <<>>,
                        AllPossibleUpUrlsList(um.use_https))
    /\ UNCHANGED notManager

\* UploadManager::for_bucket_name, given what Region::query returns: None
\* for an error, else the answered regions
ForBucketName(reply) ==
    /\ um.pc = "new"
    /\ um' = IF IsSome(reply)
             THEN BucketUploaderBuilderNew("for_bucket_name", "Ok", Unwrap(reply),
                      ExtractUpUrlsListFromRegions(Unwrap(reply), um.use_https))
             ELSE BucketUploaderBuilderNew("for_bucket_name", "Err", <<>>,
                      AllPossibleUpUrlsList(um.use_https))
    /\ UNCHANGED notManager

\* BucketUploaderBuilder::build: the uploader holds the list of its builder
BucketUploaderBuild ==
    /\ um.pc = "bucket_uploader_builder"
    /\ um' = [um EXCEPT !.pc = "bucket_uploader"]
    /\ UNCHANGED notManager

NextManager ==
    \/ \E t \in Threads, b \in Buckets :
        \/ CallRegion(t, b)
        \/ CallRegions(t, b)
    \/ \E t \in Threads :
        \/ RegionGetOrTryInit(t)
        \/ RegionQuery(t)
        \/ \E ans \in RegionAnswers : RegionQueryHttpOk(t, ans)
        \/ RegionQueryHttpErr(t)
        \/ RegionInitFailed(t)
        \/ RegionInit(t)
        \/ RegionPublish(t)
        \/ BucketRegionIterCollect(t)
        \/ ForBucket(t)
    \/ \E reply \in {None} \cup {Some(ans) : ans \in RegionAnswers} : ForBucketName(reply)
    \/ BucketUploaderBuild

SpecManager == InitManager /\ [][NextManager]_vars

(* -------------------- domain::query and its cache key ------------------ *)

\* the texts a credential and a bucket name are made of, as sequences of
\* characters: nothing in Credential or in the builder restricts them
Texts == {<<"a">>, <<"b">>, <<"a", ":", "b">>}

Credentials == [access_key : Texts, secret_key : Texts]

\* QueryCacheKey::new: access_key + ":" + secret_key + ":" + bucket_name
QueryCacheKeyNew(credential, bucket_name) ==
    credential.access_key \o <<":">> \o credential.secret_key \o <<":">> \o bucket_name

\* what GET /v6/domain/list answers for a bucket of an account: the
\* domains bound to that bucket
DomainsBound(credential, bucket_name) ==
    [account |-> credential.access_key, tbl |-> bucket_name]

\* the process with an empty QUERY_CACHE
QueryCacheNew ==
    [pc |-> "ready", cache |-> {}, queries |-> 0,
     \* history: the last query and what it returned
     last |-> None]

InitQueryCache ==
    /\ InitBuckets
    /\ fu = FormIdle
    /\ bu = BatchIdle
    /\ bb = BuilderIdle
    /\ ru = ResumableIdle
    /\ ch = HandleIdle
    /\ ob = ObjectIdle
    /\ um = ManagerIdle
    /\ qc = QueryCacheNew

notQueryCache == <<bucketVars, fu, bu, bb, ru, ch, ob, um>>

\* domain::query(http_client, credential, bucket_name):
\* QUERY_CACHE.try_get_or_insert(QueryCacheKey::new(..), ..): the entry under
\* the key is returned when there is one; else the Service is asked, an
\* answer is kept under the key and an error is returned with nothing kept
DomainQueryByKey(credential, bucket_name, answered) ==
    /\ qc.pc = "ready"
    /\ qc.queries < MaxQueries
    /\ LET key == QueryCacheKeyNew(credential, bucket_name)
           hits == {e \in qc.cache : e.key = key}
           asked == [credential |-> credential, bucket_name |-> bucket_name]
       IN  qc' = IF hits # {}
                 THEN [qc EXCEPT !.queries = @ + 1,
                                 !.cache = (@ \ hits) \cup
                                     {[e EXCEPT !.served = @ \cup {asked}] : e \in hits},
                                 !.last = Some([asked |-> asked, res |-> "Ok", http |-> FALSE,
                                                domains |-> (CHOOSE e \in hits : TRUE).domains])]
                 ELSE IF answered
                 THEN [qc EXCEPT !.queries = @ + 1,
                                 !.cache = @ \cup {[key |-> key, served |-> {asked},
                                                    domains |-> DomainsBound(credential, bucket_name)]},
                                 !.last = Some([asked |-> asked, res |-> "Ok", http |-> TRUE,
                                                domains |-> DomainsBound(credential, bucket_name)])]
                 ELSE [qc EXCEPT !.queries = @ + 1,
                                 !.last = Some([asked |-> asked, res |-> "Err", http |-> TRUE,
                                                domains |-> None])]
    /\ UNCHANGED notQueryCache

NextQueryCache ==
    \E credential \in Credentials, bucket_name \in Texts, answered \in BOOLEAN :
        DomainQueryByKey(credential, bucket_name, answered)

SpecQueryCache == InitQueryCache /\ [][NextQueryCache]_vars

(* ------------------------- claims on the bucket ------------------------ *)

RECURSIVE SumCalls(_, _)
SumCalls(e, S) ==
    IF S = {} THEN 0
    ELSE LET b == CHOOSE x \in S : TRUE IN httpCalls[e][b] + SumCalls(e, S \ {b})

\* HTTP calls made to endpoint e, for all buckets together
TotalHttp(e) == SumCalls(e, Buckets)

\* the threads whose last call was o and returned Ok
Observers(o) == {t \in Threads : obs[t].res = "Ok" /\ obs[t].op = o}

RegionObservers == Observers("region") \cup Observers("regions")

\* C1: while the region query never fails, the callers of region()/regions()
\* cause exactly one HTTP call in total as long as the cache was never
\* purged, a bucket whose answer named a region never queries twice, and all
\* callers of a bucket observe the same primary region and the same backup
\* regions
C1_RegionQueriedOnce ==
    httpFailed["region"] = 0 =>
        /\ \A b \in Buckets :
                (\A t \in Threads : pc[t] = "panicked" => bkt[t] # b)
                    => httpCalls["region"][b] <= 1
        /\ ~purged => TotalHttp("region") <= 1
        /\ RegionObservers # {} => TotalHttp("region") >= 1
        /\ \A t, u \in RegionObservers :
                obs[t].bucket = obs[u].bucket =>
                    /\ obs[t].val[1] = obs[u].val[1]
                    /\ obs[t].op = "regions" /\ obs[u].op = "regions"
                            => obs[t].val = obs[u].val

\* two threads called region() and regions() of the same fresh bucket at the
\* same time; one HTTP call was made and both returned
C1_Witness ==
    \E t, u \in Threads :
        /\ t # u
        /\ obs[t].res = "Ok" /\ obs[t].op = "region"
        /\ obs[u].res = "Ok" /\ obs[u].op = "regions"
        /\ obs[t].bucket = obs[u].bucket
        /\ Len(obs[u].val) = 3
        /\ obs[t].val[1] = obs[u].val[1]
        /\ contended["region"]
        /\ httpFailed["region"] = 0
        /\ TotalHttp("region") = 1

\* C2: within the lifetime of the cache entry and while the domain query
\* never fails, domains() of all buckets with the same key issue at most one
\* HTTP call in total and all callers receive the same domain list
C2_DomainQueriedOnce ==
    (httpFailed["domain"] = 0 /\ ~purged) =>
        /\ TotalHttp("domain") <= 1
        /\ \A t, u \in Observers("domains") : obs[t].val = obs[u].val

\* two threads called domains() of two independently built buckets at the
\* same time; one HTTP call was made and both got the list
C2_Witness ==
    \E t, u \in Threads :
        /\ t # u
        /\ {t, u} \subseteq Observers("domains")
        /\ obs[t].bucket # obs[u].bucket
        /\ obs[t].val = <<"abc.com", "def.com">>
        /\ obs[u].val = obs[t].val
        /\ contended["domain"]
        /\ TotalHttp("domain") = 1
        /\ ~purged

\* in this step, cell `cell` of bucket b keeps its value once set, and is
\* written only while unset and by the thread initializing `guard`
WrittenOnce(b, cell, cell2, guard) ==
    /\ IsSome(cell[b]) => cell2[b] = cell[b]
    /\ cell2[b] # cell[b] => cell[b] = None /\ IsSome(initializing[b][guard])

\* C3: every lazy cell of a bucket is write-once: a set cell never changes,
\* and a cell is written only from unset, by the one thread holding its
\* initialization
C3_CellsWriteOnce ==
    [][\A b \in Buckets :
            /\ WrittenOnce(b, region, region', "region")
            /\ WrittenOnce(b, backup_regions, backup_regions', "region")
            /\ WrittenOnce(b, domains, domains', "domains")
            /\ WrittenOnce(b, rs_urls, rs_urls', "rs_urls")
            /\ WrittenOnce(b, bucket_info, bucket_info', "bucket_info")]_vars

\* rs_urls() has set region, backup_regions and rs_urls of a bucket, and a
\* second call on the bucket has returned
C3_Witness ==
    \E b \in Buckets, t, u \in Threads :
        /\ t # u
        /\ IsSome(region[b]) /\ IsSome(backup_regions[b]) /\ IsSome(rs_urls[b])
        /\ Len(Unwrap(rs_urls[b])) = 2
        /\ obs[t].res = "Ok" /\ obs[t].bucket = b /\ obs[t].op = "rs_urls"
        /\ obs[u].res = "Ok" /\ obs[u].bucket = b /\ obs[u].op = "regions"

\* C4: a failed discovery is not cached: after the query behind region(),
\* domains() or is_private() failed, the cell is unset (until a later
\* discovery succeeds) and so is the cache entry
C4_FailureNotCached ==
    /\ \A b \in Buckets :
        /\ lastFailed[b]["region"] => region[b] = None
        /\ lastFailed[b]["region"] /\ initializing[b]["region"] = None
                => backup_regions[b] = None
        /\ lastFailed[b]["domain"] => domains[b] = None
        /\ lastFailed[b]["info"] => bucket_info[b] = None
    /\ queryFailed["region"] => regionQueryCache = None
    /\ queryFailed["domain"] => domainQueryCache = None

\* region() failed for one caller, and a later call on the same bucket sent
\* a new request and succeeded
C4_Witness ==
    \E b \in Buckets, t, u \in Threads :
        /\ obs[t].res = "Err" /\ obs[t].op = "region" /\ obs[t].bucket = b
        /\ obs[u].res = "Ok" /\ obs[u].op = "region" /\ obs[u].bucket = b
        /\ httpFailed["region"] = 1
        /\ httpCalls["region"][b] = 2
        /\ IsSome(region[b])

\* the threads holding the error of a failed query of endpoint e that they
\* have not returned yet (the bucket info error is returned at once)
HoldingError(e) ==
    CASE e = "region" -> {t \in Threads : pc[t] = "region_fail"}
      [] e = "domain" -> {t \in Threads : pc[t] = "domains_fail"}
      [] e = "info" -> {}

\* C5: every failed query is seen by exactly one requester (the errors
\* returned, plus those about to be, are as many as the failed queries), and
\* the entry is purged: nothing stays marked as being computed
C5_ErrorSeenOnce ==
    /\ \A e \in Endpoints :
        errReturned[e] + Cardinality(HoldingError(e)) = httpFailed[e]
    /\ IsSome(regionQueryInflight) => pc[Unwrap(regionQueryInflight)] = "region_http"
    /\ IsSome(domainQueryInflight) => pc[Unwrap(domainQueryInflight)] = "domain_http"

\* two requesters looked the region up at the same time and the query
\* failed: one got the error, the other re-attempted and succeeded
C5_Witness ==
    \E t, u \in Threads :
        /\ obs[t].res = "Err" /\ obs[t].op = "region"
        /\ obs[u].res = "Ok" /\ obs[u].op = "region"
        /\ contended["region"]
        /\ httpFailed["region"] = 1
        /\ errReturned["region"] = 1
        /\ TotalHttp("region") = 2

\* C6: a cache entry is the first answer the Service gave since the entry
\* was last purged, and until a purge every region() returns the primary of
\* that first answer and every domains() that first list
C6_FirstAnswerKept ==
    /\ IsSome(regionQueryCache) => regionQueryCache = firstAnswer["region"]
    /\ IsSome(domainQueryCache) => domainQueryCache = firstAnswer["domain"]
    /\ ~purged =>
        /\ \A t \in RegionObservers :
                /\ IsSome(firstAnswer["region"])
                /\ obs[t].val[1] = Unwrap(firstAnswer["region"])[1]
        /\ \A t \in Observers("domains") :
                /\ IsSome(firstAnswer["domain"])
                /\ obs[t].val = Unwrap(firstAnswer["domain"])

\* two calls on two buckets, one after the other, returned the cached first
\* answer after a single query
C6_Witness ==
    \E t, u \in Threads :
        /\ t # u
        /\ {t, u} \subseteq Observers("region")
        /\ obs[t].bucket # obs[u].bucket
        /\ obs[t].val = <<"z1">> /\ obs[u].val = <<"z1">>
        /\ firstAnswer["region"] = Some(<<"z1", "z0">>)
        /\ ~contended["region"]
        /\ TotalHttp("region") = 1
        /\ ~purged

(* ---------------------- claims on FormUploader::send ------------------- *)

Sending == fu.pc # "unused"

Done == Sending /\ fu.pc = "done"

\* the HTTP calls it takes to get an error from every host of every region
RECURSIVE HostsOf(_)
HostsOf(list) == IF list = <<>> THEN 0 ELSE Head(list) + HostsOf(Tail(list))

\* C7: send() requests the regions strictly in list order, each at most
\* once; as soon as a response is a success no further HTTP call is made,
\* send() returns that success, and a success of the very first call makes
\* exactly one HTTP call
C7_FirstSuccessReturned ==
    Sending =>
        /\ fu.tried = [j \in 1..Len(fu.tried) |-> j]
        /\ Len(fu.outcomes) \in {Len(fu.tried) - 1, Len(fu.tried)}
        /\ "200" \in fu.seen =>
                /\ fu.pc \in {"match", "done"}
                /\ fu.outcomes[Len(fu.outcomes)] = [res |-> "Ok", region |-> Len(fu.tried)]
                /\ \A j \in 1..(Len(fu.outcomes) - 1) : fu.outcomes[j].res = "Err"
                /\ Done => fu.result = Some([res |-> "Ok", region |-> Len(fu.tried)])
        /\ fu.seen = {"200"} => fu.attempts = 1

\* the first region failed on all its hosts, the second answered 200: send
\* returned Ok from the second region
C7_Witness ==
    /\ Done
    /\ Len(fu.up_urls_list) = 2
    /\ fu.up_urls_list[1] = 2
    /\ fu.seen = {"503", "200"}
    /\ fu.attempts = 3
    /\ fu.tried = <<1, 2>>
    /\ fu.result = Some([res |-> "Ok", region |-> 2])

\* every region was requested and failed with a kind that leads to the next
\* region
AllRegionsFailed ==
    /\ Done
    /\ Len(fu.up_urls_list) > 0
    /\ Len(fu.outcomes) = Len(fu.up_urls_list)
    /\ \A j \in 1..Len(fu.outcomes) :
            /\ fu.outcomes[j].res = "Err"
            /\ fu.outcomes[j].err.kind \in
                    {"RetryableError", "HostUnretryableError", "ZoneUnretryableError"}

\* C8: when every region of a non-empty list fails with RetryableError,
\* HostUnretryableError or ZoneUnretryableError, send() returns Err with the
\* error of the last region
C8_LastErrorReturned ==
    AllRegionsFailed => fu.result = Some(fu.outcomes[Len(fu.up_urls_list)])

\* two regions failed with different errors and send returned the second
C8_Witness ==
    /\ AllRegionsFailed
    /\ Len(fu.up_urls_list) = 2
    /\ fu.outcomes[1].err.kind = "ZoneUnretryableError"
    /\ fu.outcomes[2].err.kind = "RetryableError"
    /\ fu.result = Some(fu.outcomes[2])
    /\ Unwrap(fu.result).err.region = 2

\* C9: a region failing with any other retry kind ends send(): that error
\* is returned, and no later region is requested
C9_UnretryableReturned ==
    Sending =>
        \A j \in 1..Len(fu.outcomes) :
            (fu.outcomes[j].res = "Err" /\ fu.outcomes[j].err.kind = "Unretryable") =>
                /\ j = Len(fu.outcomes)
                /\ j = Len(fu.tried)
                /\ fu.pc \in {"match", "done"}
                /\ Done => fu.result = Some(fu.outcomes[j])

\* the first of two regions answered 403 and send returned that error
\* after one HTTP call
C9_Witness ==
    /\ Done
    /\ Len(fu.up_urls_list) = 2
    /\ fu.seen = {"403"}
    /\ fu.attempts = 1
    /\ fu.tried = <<1>>
    /\ Unwrap(fu.result).res = "Err"
    /\ Unwrap(fu.result).err.kind = "Unretryable"
    /\ Unwrap(fu.result).err.region = 1

\* C10: when every response is a 500, send() ends after
\* hosts of all regions x (http_request_retries + 1) HTTP calls, with a
\* RetryableError, whether the stream was seekable or not
C10_AttemptsOn500 ==
    (Done /\ fu.seen = {"500"}) =>
        /\ fu.attempts = HostsOf(fu.up_urls_list) * (fu.http_request_retries + 1)
        /\ Unwrap(fu.result).res = "Err"
        /\ Unwrap(fu.result).err.kind = "RetryableError"

\* 2 regions x 2 hosts, http_request_retries = 3, every response a 500, a
\* stream that is not seekable: 16 HTTP calls
C10_Witness ==
    /\ Done
    /\ fu.up_urls_list = <<2, 2>>
    /\ fu.http_request_retries = 3
    /\ ~fu.seekable
    /\ fu.seen = {"500"}
    /\ fu.attempts = 16

\* C11: when every response is a 503, every host of every region is tried
\* once and never retried: send() ends after as many HTTP calls as there are
\* hosts in all regions, each region's request ending on its last host, and
\* returns a HostUnretryableError
C11_AttemptsOn503 ==
    (Done /\ fu.seen = {"503"}) =>
        /\ fu.attempts = HostsOf(fu.up_urls_list)
        /\ Len(fu.outcomes) = Len(fu.up_urls_list)
        /\ \A j \in 1..Len(fu.outcomes) :
                /\ fu.outcomes[j].res = "Err"
                /\ fu.outcomes[j].err.host = fu.up_urls_list[j]
        /\ Unwrap(fu.result).res = "Err"
        /\ Unwrap(fu.result).err.kind = "HostUnretryableError"

\* 2 regions x 2 hosts, http_request_retries = 3, every response a 503:
\* 4 HTTP calls and an error
C11_Witness ==
    /\ Done
    /\ fu.up_urls_list = <<2, 2>>
    /\ fu.http_request_retries = 3
    /\ fu.seen = {"503"}
    /\ fu.attempts = 4
    /\ Unwrap(fu.result).res = "Err"

\* C12: when every response is a 400 "incorrect region", each region gets
\* one HTTP call on its first host and no other, send() goes through all
\* regions, and returns a ZoneUnretryableError after as many HTTP calls as
\* there are regions
C12_AttemptsOnIncorrectRegion ==
    (Done /\ fu.seen = {"400 incorrect region"}) =>
        /\ fu.attempts = Len(fu.up_urls_list)
        /\ fu.tried = [j \in 1..Len(fu.up_urls_list) |-> j]
        /\ Len(fu.outcomes) = Len(fu.up_urls_list)
        /\ \A j \in 1..Len(fu.outcomes) :
                /\ fu.outcomes[j].res = "Err"
                /\ fu.outcomes[j].err.host = 1
        /\ Unwrap(fu.result).res = "Err"
        /\ Unwrap(fu.result).err.kind = "ZoneUnretryableError"

\* 2 regions x 2 hosts, http_request_retries = 3, every response a 400
\* "incorrect region": 2 HTTP calls and an error
C12_Witness ==
    /\ Done
    /\ fu.up_urls_list = <<2, 2>>
    /\ fu.http_request_retries = 3
    /\ fu.seen = {"400 incorrect region"}
    /\ fu.attempts = 2
    /\ Unwrap(fu.result).err.region = 2

(* ----------------------- claims on BatchUploader ----------------------- *)

Batching == bu.pc # "unused"

\* the ids of the jobs in a sequence of jobs
Ids(jobs) == {jobs[i].id : i \in 1..Len(jobs)}

\* the jobs a start() call has taken
Taken == {j \in 1..bu.pushed : j \notin Ids(bu.jobs)}

\* C13: whenever start() is not running, nothing spawned is left or still
\* being handled, and every job a start() had taken was run once and its
\* on_completed, if it has one, was invoked once with its upload result
C13_StartJoinsJobs ==
    Batching =>
        /\ \A j \in JobIds : bu.runs[j] <= 1 /\ bu.callbacks[j] <= 1
        /\ bu.pc = "idle" =>
            /\ bu.spawned = {} /\ bu.handling = {} /\ bu.local_jobs = <<>>
            /\ \A j \in Taken :
                /\ bu.runs[j] = 1
                /\ bu.callbacks[j] = (IF bu.with_callback[j] THEN 1 ELSE 0)
                /\ bu.with_callback[j] => bu.callback_arg[j] = bu.results[j]

\* start() has returned after two jobs, one with on_completed and a failed
\* upload, one without
C13_Witness ==
    /\ Batching
    /\ bu.pc = "idle"
    /\ bu.starts = 1
    /\ Taken = {1, 2}
    /\ bu.with_callback[1] /\ ~bu.with_callback[2]
    /\ bu.callbacks[1] = 1 /\ bu.callback_arg[1] = "Err"
    /\ bu.runs[2] = 1 /\ bu.callbacks[2] = 0

\* what start() is to leave alone
Context(b) == <<b.core, b.upload_token, b.max_concurrency, b.thread_pool_size>>

\* C14: no step of start(), from the call to the return, changes
\* max_concurrency, thread_pool_size, the token or the bucket of the
\* uploader; when start() returns the job vector is empty; and no job is
\* ever run twice
C14_StartKeepsContext ==
    [][(Batching /\ (bu.pc \in {"scope", "join"} \/ bu'.pc = "scope")) =>
            /\ Context(bu') = Context(bu)
            /\ bu'.pc = "idle" => bu'.jobs = <<>>
            /\ \A j \in JobIds : bu'.runs[j] <= 1]_vars

\* a configured uploader ran one job in a first start() and, after a
\* second job was pushed, only that one in a second start()
C14_Witness ==
    /\ Batching
    /\ bu.pc = "idle"
    /\ bu.starts = 2
    /\ bu.jobs = <<>>
    /\ bu.thread_pool_size = 2 /\ bu.max_concurrency = 1
    /\ bu.run_in[1] = 1 /\ bu.run_in[2] = 2
    /\ bu.runs[1] = 1 /\ bu.runs[2] = 1

\* C15: the pool start() runs its jobs on always has more than one
\* worker, whatever thread_pool_size, the manager's pool and the number
\* of CPUs are
C15_PoolHasSeveralWorkers ==
    (Batching /\ bu.pc \in {"scope", "join"}) => bu.pool > 1

\* the token of the uploader itself: the one it was created from, or the
\* one its bucket generates
UploaderToken ==
    IF bu.core = "UploadManager" THEN Unwrap(bu.upload_token) ELSE GeneratedToken

\* C16: a job that was given a token of its own is uploaded with that
\* token, a job that was given none with the token of the batch uploader,
\* whether the uploader was created from an upload manager or from a bucket
C16_JobTokenUsed ==
    Batching =>
        \A j \in JobIds :
            bu.runs[j] > 0 =>
                bu.token_used[j] =
                    IF IsSome(bu.job_token[j])
                    THEN Unwrap(bu.job_token[j]).id
                    ELSE UploaderToken.id

\* the token the uploader was to be created from names no bucket
NoBucketGiven(b) ==
    /\ IsSome(b.created)
    /\ IsSome(Unwrap(b.created).token)
    /\ Unwrap(Unwrap(b.created).token).bucket = None

\* C17: new_for_upload_manager, upload_for_upload_token and
\* batch_uploader_for_upload_token, given a token that names no bucket,
\* return BucketIsMissingInUploadToken, look up no region and change
\* nothing else; BatchUploadJobBuilder::upload_token given such a token
\* changes nothing of the uploader and looks up no region either
C17_BucketIsMissing ==
    [][Batching =>
        /\ (bu.pc = "new" /\ bu'.pc # "new" /\ NoBucketGiven(bu')) =>
                /\ Unwrap(bu'.created).res = "BucketIsMissingInUploadToken"
                /\ bu' = [bu EXCEPT !.pc = "failed", !.created = bu'.created]
        /\ (~bu.refused /\ bu'.refused) => bu' = [bu EXCEPT !.refused = TRUE]]_vars

\* batch_uploader_for_upload_token was refused, and so was a job's token
C17_Witness ==
    /\ Batching
    /\ bu.pc = "failed"
    /\ NoBucketGiven(bu)
    /\ Unwrap(bu.created).by = "batch_uploader_for_upload_token"
    /\ bu.region_queries = 0

(* ---------------------- claims on built buckets ----------------------- *)

\* bucket 1 was built by a builder
Built == bb.pc = "built"

\* what thread t saw regions() (resp. region()) return
SawRegions(t) == obs[t].op = "regions" /\ obs[t].bucket = 1 /\ obs[t].res = "Ok"

SawRegion(t) == obs[t].op = "region" /\ obs[t].bucket = 1 /\ obs[t].res = "Ok"

\* C18: after k >= 1 region()/region_id() calls with r1..rk and build(),
\* region() is r1, regions() yields r1, ..., rk in that order, and every
\* further next() is None
C18_GivenRegionsInOrder ==
    (Built /\ bb.given # <<>>) =>
        /\ region[1] = Some(bb.given[1])
        /\ IterCollect(1, 0) = bb.given
        /\ \A n \in Len(bb.given)..(Len(bb.given) + MaxGiven) : IterNext(1, n) = None
        /\ \A t \in Threads :
            /\ obs[t].op \in {"region", "regions"} => obs[t].res = "Ok"
            /\ SawRegion(t) => obs[t].val = <<bb.given[1]>>
            /\ SawRegions(t) => obs[t].val = bb.given

\* three regions were given, the last two the other way round than the
\* first two, and a thread has run regions() to its end
C18_Witness ==
    /\ Built
    /\ bb.given = <<"z1", "z0", "z1">>
    /\ \E t \in Threads : SawRegions(t) /\ obs[t].val = bb.given
    /\ \E t \in Threads : SawRegion(t)

\* C19: when the regions are discovered from the Service, by region() or
\* by auto_detect_region(), regions() yields the answered list [r0, ..., rn]
\* in the answered order
C19_DiscoveredRegionsInOrder ==
    (Built /\ bb.given = <<>>) =>
        \A t \in Threads :
            SawRegions(t) =>
                /\ obs[t].val \in RegionAnswers
                /\ IsSome(bb.detected_regions) => obs[t].val = Unwrap(bb.detected_regions)
                /\ (~purged /\ IsSome(firstAnswer["region"])) =>
                        obs[t].val = Unwrap(firstAnswer["region"])

\* the region (resp. the domains) of the bucket was fixed at build time
RegionFixed == Built /\ (bb.given # <<>> \/ IsSome(bb.detected_regions))

DomainsFixed == Built /\ (bb.prepended # <<>> \/ IsSome(bb.detected_domains))

\* C20: a bucket whose region (resp. domains) was fixed at build time makes
\* no HTTP call from region() and regions() (resp. domains()); detection
\* made one HTTP call at builder time, explicit configuration none
C20_NoHttpOnceFixed ==
    /\ RegionFixed =>
        /\ httpCalls["region"][1] = 0
        /\ IsSome(bb.detected_regions) => bb.http["region"] = 1
        /\ ~bb.tried["region"] => bb.http["region"] = 0
    /\ DomainsFixed =>
        /\ httpCalls["domain"][1] = 0
        /\ IsSome(bb.detected_domains) => bb.http["domain"] = 1
        /\ ~bb.tried["domain"] => bb.http["domain"] = 0

(* ----------------------- claims on the domains ------------------------ *)

\* what thread t saw domains() (resp. get_domain_and_backup_domains())
\* return on the built bucket
SawDomains(t) == obs[t].op = "domains" /\ obs[t].bucket = 1 /\ obs[t].res = "Ok"

SawDomainAndBackups(t) ==
    obs[t].op = "get_domain_and_backup_domains" /\ obs[t].bucket = 1

\* C21: after prepend_domain(d1), ..., prepend_domain(dk) and build(),
\* domains() is dk, ..., d1 and get_domain_and_backup_domains() gives dk as
\* the domain and d(k-1), ..., d1 as its backups
C21_LastPrependedPreferred ==
    (Built /\ bb.prepended # <<>> /\ ~bb.tried["domain"]) =>
        /\ domains[1] = Some(Reverse(bb.prepended))
        /\ \A t \in Threads :
            /\ SawDomains(t) => obs[t].val = Reverse(bb.prepended)
            /\ SawDomainAndBackups(t) =>
                /\ obs[t].res = "Ok"
                /\ obs[t].val = <<Head(Reverse(bb.prepended)), Tail(Reverse(bb.prepended))>>

\* C22: after auto_detect_domains() answered [q1, ..., qm] (m >= 1) and
\* prepend_domain(c1), ..., prepend_domain(cj), domains() is
\* cj, ..., c1, q1, ..., qm; a bucket that loads the answer lazily, before
\* any entry of the cache ran out, returns q1, ..., qm
C22_ServiceOrderKept ==
    /\ (Built /\ IsSome(bb.detected_domains) /\ bb.detected_domains # Some(<<>>)) =>
        /\ domains[1] = Some(Reverse(bb.prepended) \o Unwrap(bb.detected_domains))
        /\ \A t \in Threads :
            SawDomains(t) =>
                obs[t].val = Reverse(bb.prepended) \o Unwrap(bb.detected_domains)
    /\ (Built /\ bb.prepended = <<>> /\ ~bb.tried["domain"] /\ ~purged
              /\ IsSome(firstAnswer["domain"])) =>
        \A t \in Threads : SawDomains(t) => obs[t].val = Unwrap(firstAnswer["domain"])

\* how often x occurs in s
Count(s, x) == Cardinality({i \in DOMAIN s : s[i] = x})

\* C23: get_domain_and_backup_domains returns NoDomainsBound exactly when
\* domains() returned an empty list, GetDomainsError exactly when domains()
\* failed, and otherwise a domain and backups that together are a
\* permutation of what domains() returned
C23_DomainAndBackups ==
    \A t \in Threads :
        SawDomainAndBackups(t) =>
            /\ obs[t].res \in {"Ok", "NoDomainsBound", "GetDomainsError"}
            /\ obs[t].res = "NoDomainsBound" <=>
                    (obs[t].of.res = "Ok" /\ obs[t].of.val = <<>>)
            /\ obs[t].res = "GetDomainsError" <=> obs[t].of.res = "Err"
            /\ obs[t].res = "Ok" =>
                LET all == <<obs[t].val[1]>> \o obs[t].val[2] IN
                    /\ Len(all) = Len(obs[t].of.val)
                    /\ \A i \in DOMAIN all : Count(all, all[i]) = Count(obs[t].of.val, all[i])

\* one thread was refused by a failing lookup, the other got a domain and a
\* backup out of the two domains of the bucket
C23_Witness ==
    /\ \E t \in Threads : SawDomainAndBackups(t) /\ obs[t].res = "GetDomainsError"
    /\ \E t \in Threads :
        /\ SawDomainAndBackups(t)
        /\ obs[t].res = "Ok"
        /\ Len(obs[t].of.val) = 2

(* ------------------------- claims on rs_urls -------------------------- *)

\* thread t saw rs_urls() return
SawRsUrls(t) == obs[t].op = "rs_urls" /\ obs[t].res = "Ok"

\* an RS host list as rs_urls() is to give it for bucket b: the hosts of
\* the region of b and then the global host, or, some region discovery
\* having failed, the global host alone
RsUrlsOf(b, urls) ==
    /\ urls # <<>>
    /\ urls[Len(urls)] = GlobalRsUrl
    /\ IF urls = <<GlobalRsUrl>>
       THEN errReturned["region"] > 0
       ELSE /\ IsSome(region[b])
            /\ urls = RsUrlsRef(Unwrap(region[b])) \o <<GlobalRsUrl>>

CellsOf(b) == <<region[b], backup_regions[b], domains[b]>>

\* the cells of bucket b after the step
CellsAfter(b) == <<region'[b], backup_regions'[b], domains'[b]>>

\* C25: reset(name) replaces the name of the builder, clears its region,
\* backup regions and domains and leaves the buckets built before as they
\* are; a build() that follows it gives a bucket with the new name whose
\* region, backup regions and domains are unset
C25_ResetMakesReusable ==
    [][/\ bb'.resets = bb.resets + 1 =>
            /\ bb'.region = None /\ bb'.backup_regions = <<>> /\ bb'.domains = <<>>
            /\ bb'.built = bb.built
            /\ \A b \in Buckets : CellsAfter(b) = CellsOf(b)
       /\ (bb.resets > 0 /\ Len(bb'.built) = Len(bb.built) + 1) =>
            LET k == Len(bb.built) + 1 IN
                /\ bb'.built[k] = bb.name
                /\ CellsAfter(k) = <<None, None, None>>
                /\ \A b \in Buckets \ {k} : CellsAfter(b) = CellsOf(b)]_vars

\* a bucket was built with regions and domains, then the builder was reset
\* to another name and built a second bucket with nothing set
C25_Witness ==
    /\ bb.pc = "built"
    /\ bb.built = <<"bucket-a", "bucket-b">>
    /\ bb.resets = 1
    /\ CellsOf(1) = <<Some("z0"), Some(<<"z1">>), Some(<<"cdn2.com", "cdn1.com">>)>>
    /\ CellsOf(2) = <<None, None, None>>


(* --------------------- claims on the upload hooks --------------------- *)

\* C26: the `uploaded` values a form upload gives the progress callback
\* never go down over the whole send(), also when an attempt fails and
\* the body is sent again to the same host, another host or another region
C26_ProgressNeverGoesBack ==
    Sending => fu.monotone

\* the send() returned what the HTTP client's last answer stands for
AnswerDecides ==
    /\ "200" \in fu.seen =>
            /\ fu.pc \in {"match", "done"}
            /\ fu.ret = [res |-> "Ok", region |-> Len(fu.tried)]
            /\ Done => fu.result = Some(fu.ret)
    /\ \A j \in 1..Len(fu.outcomes) :
            fu.outcomes[j].res = "Err" =>
                /\ fu.outcomes[j].err.resp \in fu.seen \ {"200"}
                /\ fu.outcomes[j].err.kind = RetryKindOf(fu.outcomes[j].err.resp)
    /\ (Done /\ "200" \notin fu.seen) =>
            /\ fu.result # None
            /\ fu.result[1].res = "Err"
            /\ fu.result[1] = fu.outcomes[Len(fu.outcomes)]

C27_RegionNeverPanics ==
    \A t \in Threads : pc[t] # "panicked" /\ obs[t].res # "Panic"


(* --------------------- claims on the resumable policy ----------------- *)

\* the policy an upload is to follow: the one of the uploader used by
\* itself; for a batch job the last one its builder was given, and the
\* configured threshold when it was given none
PolicyInForce ==
    IF ~bu.of_job THEN bu.uploader_policy[1]
    ELSE IF bu.called = <<>> THEN Threshold(bu.upload_threshold)
    ELSE bu.called[Len(bu.called)]

C30_MkfileInBlockOrder ==
    (ru.pc # "unused" /\ ru.mkfile # None) =>
        LET body == ru.mkfile[1]
        IN /\ Len(body) = ru.blocks
           /\ \A i \in 1..Len(body) : body[i] = Ctx(i, ru.region)
           /\ \A b \in 1..ru.blocks : ru.block[b] = "done"
           /\ Len(ru.completed) = ru.blocks
           /\ {ru.completed[i] : i \in 1..ru.blocks} = 1..ru.blocks

\* three blocks were restarted in the second region and completed there
\* in the order 2, 3, 1; the upload succeeded
C30_Witness ==
    /\ ru.pc = "done"
    /\ ru.result = "Ok"
    /\ ru.region = 2
    /\ ru.completed = <<2, 3, 1>>
    /\ ru.mkfile = Some(<<Ctx(1, 2), Ctx(2, 2), Ctx(3, 2)>>)


\* C31: within one block the chunk requests are strictly sequential: the
\* first is mkblk, each later one is bput with the context returned by the
\* chunk just before it, and chunk i+1 is not started before chunk i has
\* succeeded, also while other blocks are uploaded at the same time
C31_ChunksInSequence ==
    ru.pc # "unused" =>
        \A b \in 1..ru.blocks :
            LET sent == ru.requests[b]
            IN /\ Len(sent) <= ru.acked[b] + 1
               /\ Len(sent) = ru.acked[b] + (IF ru.inflight[b] THEN 1 ELSE 0)
               /\ Len(sent) > 0 => sent[1] = [kind |-> "mkblk", chunk |-> 1, ctx |-> None]
               /\ \A i \in 2..Len(sent) :
                    sent[i] = [kind |-> "bput", chunk |-> i,
                               ctx |-> Some(ChunkCtx(b, ru.region, ru.gen[b], i - 1))]

\* two blocks are uploaded at the same time, each with its second chunk
\* under way
C31_Witness ==
    /\ ru.pc = "uploading"
    /\ ru.blocks >= 2
    /\ \A b \in 1..2 :
        /\ ru.block[b] = "uploading"
        /\ ru.inflight[b]
        /\ Len(ru.requests[b]) = 2


\* the blocks uploaded in this run
Uploaded == {b \in 1..ru.blocks : ru.gen[b] > 0}

\* C32: an upload resumes from a recording only if the recording exists,
\* every record is fresh (expires_at > now + 2h) and the recorded blocks
\* are a prefix of the file: then it goes on at the first missing block
\* and uploads no recorded block again; in every other case the recording
\* is discarded and all blocks are uploaded from the beginning
C32_ResumesFromPrefixOnly ==
    ru.pc \notin {"unused", "start"} =>
        IF /\ ru.found # None
           /\ \A b \in 1..ru.blocks : ru.found[1][b] = "fresh" =>
                    \A a \in 1..(b - 1) : ru.found[1][a] = "fresh"
           /\ \A b \in 1..ru.blocks : ru.found[1][b] # "stale"
        THEN LET k == Cardinality({b \in 1..ru.blocks : ru.found[1][b] = "fresh"})
             IN /\ \A b \in 1..k : b \notin Uploaded /\ ru.block[b] = "done"
                /\ Uploaded # {} => (k + 1) \in Uploaded
        ELSE /\ ru.recording = None
             /\ \A b \in 1..ru.blocks : ru.block[b] = "done" => b \in Uploaded
             /\ Uploaded # {} => 1 \in Uploaded

\* a recording of blocks 1 and 2 of three was resumed from: block 3 alone
\* was uploaded and the upload succeeded
C32_Witness ==
    /\ ru.pc = "done"
    /\ ru.result = "Ok"
    /\ ru.blocks = 3
    /\ ru.found = Some(<<"fresh", "fresh", "none">>)
    /\ Uploaded = {3}
    /\ ru.completed = <<1, 2, 3>>


(* -------------------- claims on the C interface ----------------------- *)

\* C33: for the handles of an upload response and of a header info, free
\* releases the instance exactly once and sets the caller's handle to
\* null, after which is_freed answers true; free on the null handle or on
\* a null pointer does nothing; accessor calls before free leave the
\* instance alive and the handle valid
C33_FreedOnceThenNull ==
    ch.pc # "unused" =>
        /\ ch.released <= 1
        /\ ch.live <=> ch.released = 0
        /\ ch.live <=> ch.handle # Null
        /\ (ch.got # {} /\ ch.released = 0) => (ch.live /\ ch.handle = 1 /\ ch.pc = "held")
        /\ ch.is_freed # None => (ch.is_freed[1].answer <=> ch.is_freed[1].released = 1)
        /\ ch.pc = "panicked" => ch.released = 1

\* an upload response was read by two accessors, freed, freed again and
\* asked whether it is freed: it was released once and the answer is true
C33_Witness ==
    /\ ch.pc = "held"
    /\ ch.type = "qiniu_ng_upload_response_t"
    /\ ch.got = {"get_key", "get_hash"}
    /\ ch.released = 1
    /\ ch.noops = 1
    /\ ch.handle = Null
    /\ ch.is_freed = Some([answer |-> TRUE, released |-> 1])


(* ------------------- claims on FormUploaderBuilder -------------------- *)

\* the parts of the body by name
PartsNamed(name) == {i \in 1..Len(fu.multipart) : fu.multipart[i].name = name}

\* the parts are in place: the token first, the file after the text
\* parts, and a crc32 part exactly when the checksum is enabled, last
PartsInOrder ==
    LET n == Len(fu.multipart)
    IN /\ fu.multipart[1].name = "token"
       /\ PartsNamed("token") = {1}
       /\ IF fu.checksum_enabled
          THEN PartsNamed("crc32") = {n} /\ PartsNamed("file") = {n - 1}
          ELSE PartsNamed("crc32") = {} /\ PartsNamed("file") = {n}

\* C34: seekable_stream with the checksum enabled gives a crc32 field
\* that is the CRC32 of exactly the bytes sent in the file part, the
\* whole stream from offset 0, wherever the stream stood when it was
\* given; without the checksum there is no crc32 part; the token is the
\* first part and crc32, when there is one, the last, after file
C34_Crc32OfFilePart ==
    fu.pc = "built" =>
        /\ PartsInOrder
        /\ fu.checksum_enabled =>
            LET n == Len(fu.multipart)
            IN /\ fu.multipart[n - 1].value = fu.stream
               /\ fu.multipart[n].value = Crc32(fu.multipart[n - 1].value)


(* ----------------------- claims on Object ----------------------------- *)

\* C35: get_info is always idempotent, copy_to exactly when force is
\* true, delete and move_to never, the POST of a form upload always; only
\* a request marked idempotent is sent again after a network-level error
C35_IdempotentFlags ==
    ob.pc \notin {"unused", "object"} =>
        /\ ob.op = "get_info" => ob.idempotent
        /\ ob.op = "copy_to" => (ob.idempotent <=> ob.force)
        /\ ob.op \in {"delete", "move_to"} => ~ob.idempotent
        /\ ob.op = "send_form_request" => ob.idempotent
        /\ ob.sent > 1 => ob.op \in {"get_info", "copy_to", "send_form_request"}
        /\ (ob.sent > 1 /\ ob.op = "copy_to") => ob.force

\* a forced copy was sent again after a network-level error and then
\* answered
C35_Witness ==
    /\ ob.pc = "done"
    /\ ob.op = "copy_to"
    /\ ob.force
    /\ ob.sent = 2
    /\ ob.result = "Ok"

(* ----------------------- claims on the region cells -------------------- *)

\* C36: in every state, whatever the interleaving of region() and
\* regions(), a bucket whose region cell is set has its backup_regions cell
\* set too, and what a successful regions() yields is the primary followed
\* by all the backups
C36_BackupsSetBeforePrimary ==
    /\ \A b \in Buckets : IsSome(region[b]) => IsSome(backup_regions[b])
    /\ \A t \in Threads :
        (obs[t].op = "regions" /\ obs[t].res = "Ok") =>
            /\ IsSome(region[obs[t].bucket])
            /\ obs[t].val = <<Unwrap(region[obs[t].bucket])>>
                                \o Unwrap(backup_regions[obs[t].bucket])

\* one thread is between the publication of the backups and that of the
\* primary while another has had regions() yield a primary and a backup
C36_Witness ==
    \E t, u \in Threads :
        /\ pc[t] = "region_publish"
        /\ IsSome(backup_regions[bkt[t]]) /\ ~IsSome(region[bkt[t]])
        /\ obs[u].op = "regions" /\ obs[u].res = "Ok" /\ Len(obs[u].val) = 2

(* ------------------ claims on send() and the empty list ---------------- *)

\* C39: send() returns Ok or Err and never panics, for every up_urls_list,
\* the empty one included; when it has returned, at least one HTTP attempt
\* was made or an error was returned
C39_SendNeverPanics ==
    Done =>
        /\ IsSome(fu.result)
        /\ Unwrap(fu.result).res \in {"Ok", "Err"}
        /\ fu.attempts >= 1 \/ Unwrap(fu.result).res = "Err"

(* ---------------------- claims on UploadManager ------------------------ *)

\* C40: creating an uploader never fails because the region discovery
\* returned an error: when Bucket::regions() or Region::query returns Err,
\* for_bucket and for_bucket_name make their builder over the up URL lists
\* of all the built-in regions, one inner list per region in the built-in
\* order, so that up_urls_list is not empty
C40_FallsBackToAllRegions ==
    (um.pc # "unused" /\ um.discovery = "Err") =>
        /\ um.pc \in {"bucket_uploader_builder", "bucket_uploader"}
        /\ Len(um.up_urls_list) = Len(RegionAll)
        /\ \A i \in 1..Len(RegionAll) :
            /\ um.up_urls_list[i] = UpUrlsOwned(RegionAll[i], um.use_https)
            /\ \A j \in 1..Len(um.up_urls_list[i]) : um.up_urls_list[i][j].region = RegionAll[i]
        /\ um.up_urls_list # <<>>

\* an uploader was built by for_bucket after the regions() of its bucket
\* returned an error
C40_Witness ==
    /\ um.pc = "bucket_uploader"
    /\ um.via = "for_bucket"
    /\ um.discovery = "Err"
    /\ \E t \in Threads : obs[t].op = "regions" /\ obs[t].res = "Err"

(* ------------------- claims on auto_detect_region ---------------------- *)

\* C38: after auto_detect_region() has succeeded, the primary region and
\* the backups of the builder are the head and the tail of the answer of
\* the query, whatever region()/region_id() calls were made before: no
\* backup configured earlier survives, also when one region is answered
C38_DetectionReplacesRegions ==
    (bb.pc # "unused" /\ IsSome(bb.detected_regions)) =>
        /\ bb.region = Some(Head(Unwrap(bb.detected_regions)))
        /\ bb.backup_regions = Tail(Unwrap(bb.detected_regions))

(* ------------------ claims on the domain cache key --------------------- *)

\* C37: two different (access_key, secret_key, bucket_name) triples never
\* share an entry of the domain cache: QueryCacheKey::new is injective
C37_KeyIsInjective ==
    qc.pc # "unused" =>
        /\ \A e \in qc.cache : Cardinality(e.served) = 1
        /\ \A e1, e2 \in qc.cache : e1.served = e2.served => e1.key = e2.key
        /\ IsSome(qc.last) /\ Unwrap(qc.last).res = "Ok" =>
            Unwrap(qc.last).domains =
                DomainsBound(Unwrap(qc.last).asked.credential, Unwrap(qc.last).asked.bucket_name)

====
